---- MODULE Spec2Model ----
(***************************************************************************)
(* Model of gogemini-slides-agent: the markup formatting engine (package   *)
(* formatting: ParseMarkup, parseBoldInText, ToSlidesRequests, CleanText), *)
(* the command line run (main: classifier, topic generation, sanitizers,   *)
(* image choice) and the deck writer (package presentation:                *)
(* WriteTopicsWithCharts, with package charts).                            *)
(*                                                                         *)
(* A Go string is modelled as a sequence of Unicode code points.  Offsets  *)
(* inside the parser are code-point offsets written 0-based and half-open  *)
(* as in Go (text[a:b] is Slice(text, a, b)); every boundary the regular   *)
(* expressions produce lies next to an ASCII character, so slicing by code *)
(* point and slicing by byte select the same text.  Where the code         *)
(* measures a string with len() the model measures its UTF-8 byte length   *)
(* (GoLen).                                                                *)
(***************************************************************************)
EXTENDS Integers, Sequences, FiniteSets

\* the formatting engine: a markup string and what the engine made of it
VARIABLES text, segments, requests, cleaned, have

\* position of the command line run or of the function under call
VARIABLE pc

\* sanitizeAdversarialInput: its argument and its result
VARIABLES subject, sub

\* sanitizeDataset: the topic it is handed and rewrites in place
VARIABLE topic

\* main: the run's configuration, the model calls made so far, the topics
\* parsed from the model's answer, what was printed and logged, and the
\* topics handed to the deck writer; image holds the locals of the image
\* loop (the search result and the HEAD response of the topic at hand)
VARIABLES flags, modelCalls, topics, printed, logged, rich, image

\* WriteTopicsWithCharts: the presentation's slides, the spreadsheet, the
\* requests collected for the final batch, the loop index, the calls sent to
\* the Slides and Sheets services, and the returned error
VARIABLES pres, book, batch, idx, sent, result

fmtVars == <<text, segments, requests, cleaned, have>>
sanVars == <<subject, sub>>
cliVars == <<flags, modelCalls, topics, printed, logged, rich, image>>
wVars == <<pres, book, batch, idx, sent, result>>

vars == <<fmtVars, pc, sanVars, topic, cliVars, wVars>>

\* the parts of the state a specification does not use
FmtIdle == text = <<>> /\ segments = <<>> /\ requests = <<>> /\ cleaned = <<>> /\ have = {}
SanIdle == subject = <<>> /\ sub = <<>>
DsIdle == topic = <<>>
CliIdle ==
  /\ flags = <<>> /\ modelCalls = <<>> /\ topics = <<>>
  /\ printed = <<>> /\ logged = <<>> /\ rich = <<>> /\ image = <<>>
WIdle ==
  /\ pres = <<>> /\ book = <<>> /\ batch = <<>> /\ idx = 0 /\ sent = <<>>
  /\ result = "none"

(* ------------------------------ bounds -------------------------------- *)

\* longest input string, in characters
MaxLen == 5
\* longest segment sequence handed directly to ToSlidesRequests
MaxSegs == 3

(* ---------------------------- characters ------------------------------ *)

Star == 42
Space == 32
Newline == 10
BulletMark == 8226
SubBulletMark == 9702
Letters == {97}
Accented == {233}

\* characters of the input strings of Spec
Alphabet == Letters \cup {Star, Space, Newline, BulletMark, SubBulletMark}

\* texts of the segments handed directly to ToSlidesRequests in SegSpec
SegTexts == {<<>>} \cup {<<c>> : c \in Letters \cup Accented}

ObjectID == "obj"

(* --------------------------- string helpers --------------------------- *)

\* text[a:b]
Slice(s, a, b) == SubSeq(s, a + 1, b)

\* number of bytes of the UTF-8 encoding of one code point
Utf8Len(c) == IF c < 128 THEN 1 ELSE IF c < 2048 THEN 2 ELSE IF c < 65536 THEN 3 ELSE 4

\* len(s) of a Go string: its length in bytes
RECURSIVE GoLen(_)
GoLen(s) == IF s = <<>> THEN 0 ELSE Utf8Len(Head(s)) + GoLen(Tail(s))

Min(S) == CHOOSE x \in S : \A y \in S : x <= y

\* strings.Split(s, "\n")
RECURSIVE Split(_)
Split(s) ==
  LET nl == {i \in 1..Len(s) : s[i] = Newline}
  IN IF nl = {} THEN <<s>>
     ELSE <<SubSeq(s, 1, Min(nl) - 1)>> \o Split(SubSeq(s, Min(nl) + 1, Len(s)))

\* strings.Join(lines, "\n")
RECURSIVE Join(_)
Join(lines) ==
  IF lines = <<>> THEN <<>>
  ELSE IF Len(lines) = 1 THEN lines[1]
  ELSE lines[1] \o <<Newline>> \o Join(Tail(lines))

(* ------------------------- regular expressions ------------------------ *)

\* "**" at offset i
StarsAt(s, i) == i >= 0 /\ i + 2 <= Len(s) /\ s[i + 1] = Star /\ s[i + 2] = Star

\* offsets at which a "**" closing an opener at i can stand
Closers(s, i) == {j \in (i + 2)..(Len(s) - 2) : StarsAt(s, j)}

\* boldPattern \*\*(.*?)\*\* matches at offset i: the first "**" after the
\* opener closes it, and '.' does not match a newline
BoldMatchAt(s, i) ==
  /\ StarsAt(s, i)
  /\ Closers(s, i) # {}
  /\ \A k \in (i + 2)..(Min(Closers(s, i)) - 1) : s[k + 1] # Newline

\* FindAllBold, had the pattern been greedy, \*\*(.*)\*\*: the last "**" of
\* the line closes the span
RECURSIVE FindAllBoldGreedy(_, _)
FindAllBoldGreedy(s, from) ==
  LET starts == {i \in from..(Len(s) - 4) : BoldMatchAt(s, i)}
  IN IF starts = {} THEN <<>>
     ELSE LET i == Min(starts)
              ends == {c \in Closers(s, i) : \A k \in (i + 2)..(c - 1) : s[k + 1] # Newline}
              j == CHOOSE c \in ends : \A d \in ends : d <= c
          IN <<(<<i, j + 2, i + 2, j>>)>> \o FindAllBoldGreedy(s, j + 2)

\* boldPattern.FindAllStringSubmatchIndex(s, -1), searching from offset `from`:
\* each match is <<start, end, boldStart, boldEnd>>
RECURSIVE FindAllBold(_, _)
FindAllBold(s, from) ==
  LET starts == {i \in from..(Len(s) - 4) : BoldMatchAt(s, i)}
  IN IF starts = {} THEN <<>>
     ELSE LET i == Min(starts)
              j == Min(Closers(s, i))
          IN <<(<<i, j + 2, i + 2, j>>)>> \o FindAllBold(s, j + 2)

\* boldPattern.ReplaceAllString(s, "$1")
RECURSIVE BoldReplace(_, _, _, _)
BoldReplace(s, matches, k, lastEnd) ==
  IF k > Len(matches) THEN Slice(s, lastEnd, Len(s))
  ELSE Slice(s, lastEnd, matches[k][1]) \o Slice(s, matches[k][3], matches[k][4])
         \o BoldReplace(s, matches, k + 1, matches[k][2])

BoldReplaceAll(s) == BoldReplace(s, FindAllBold(s, 0), 1, 0)

\* BulletMatch, had the pattern lacked its ^ anchor
BulletMatchUnanchored(line) ==
  \E p \in 1..(Len(line) - 1) : line[p] = BulletMark /\ line[p + 1] = Space

\* bulletPattern ^• (.*)$ on a line
BulletMatch(line) ==
  /\ Len(line) >= 2 /\ line[1] = BulletMark /\ line[2] = Space
  /\ \A k \in 3..Len(line) : line[k] # Newline

\* bulletPattern.ReplaceAllString(line, "$1")
BulletReplace(line) == IF BulletMatch(line) THEN Slice(line, 2, Len(line)) ELSE line

\* subBulletPattern ^  ◦ (.*)$ on a line
SubBulletMatch(line) ==
  /\ Len(line) >= 4
  /\ line[1] = Space /\ line[2] = Space /\ line[3] = SubBulletMark /\ line[4] = Space
  /\ \A k \in 5..Len(line) : line[k] # Newline

\* subBulletPattern.ReplaceAllString(line, "$1")
SubBulletReplace(line) == IF SubBulletMatch(line) THEN Slice(line, 4, Len(line)) ELSE line

(* ------------------------------ parser -------------------------------- *)

\* TextSegment
Segment(t, bold, bullet, level) == [Text |-> t, IsBold |-> bold, IsBullet |-> bullet, Level |-> level]

\* TextSegment{Text: "\n"}
NewlineSegment == Segment(<<Newline>>, FALSE, FALSE, 0)

\* BoldLoop, had it kept the remaining text only when the line has no bold span
RECURSIVE BoldLoopTailOnlyWithoutMatch(_, _, _, _, _, _)
BoldLoopTailOnlyWithoutMatch(s, isBullet, level, matches, k, lastEnd) ==
  IF k > Len(matches)
  THEN IF lastEnd < Len(s) /\ matches = <<>>
       THEN <<Segment(Slice(s, lastEnd, Len(s)), FALSE, isBullet, level)>>
       ELSE <<>>
  ELSE LET start == matches[k][1]
           end == matches[k][2]
           boldStart == matches[k][3]
           boldEnd == matches[k][4]
           before == IF start > lastEnd
                     THEN <<Segment(Slice(s, lastEnd, start), FALSE, isBullet, level)>>
                     ELSE <<>>
       IN before \o <<Segment(Slice(s, boldStart, boldEnd), TRUE, isBullet, level)>>
            \o BoldLoopTailOnlyWithoutMatch(s, isBullet, level, matches, k + 1, end)

\* the loop of parseBoldInText over the matches, and the remaining text
RECURSIVE BoldLoop(_, _, _, _, _, _)
BoldLoop(s, isBullet, level, matches, k, lastEnd) ==
  IF k > Len(matches)
  THEN IF lastEnd < Len(s) THEN <<Segment(Slice(s, lastEnd, Len(s)), FALSE, isBullet, level)>>
       ELSE <<>>
  ELSE LET start == matches[k][1]
           end == matches[k][2]
           boldStart == matches[k][3]
           boldEnd == matches[k][4]
           before == IF start > lastEnd
                     THEN <<Segment(Slice(s, lastEnd, start), FALSE, isBullet, level)>>
                     ELSE <<>>
       IN before \o <<Segment(Slice(s, boldStart, boldEnd), TRUE, isBullet, level)>>
            \o BoldLoop(s, isBullet, level, matches, k + 1, end)

parseBoldInText(s, isBullet, level) == BoldLoop(s, isBullet, level, FindAllBold(s, 0), 1, 0)

\* LineSegments, had it handed the whole line, prefix included, to
\* parseBoldInText
LineSegmentsKeepPrefix(line) ==
  IF BulletMatch(line) THEN parseBoldInText(line, TRUE, 0)
  ELSE IF SubBulletMatch(line) THEN parseBoldInText(line, TRUE, 1)
  ELSE parseBoldInText(line, FALSE, 0)

\* the segments of one line
LineSegments(line) ==
  IF BulletMatch(line) THEN parseBoldInText(BulletReplace(line), TRUE, 0)
  ELSE IF SubBulletMatch(line) THEN parseBoldInText(SubBulletReplace(line), TRUE, 1)
  ELSE parseBoldInText(line, FALSE, 0)

\* LineBreak, had a newline segment been appended after every line
LineBreakAlways(line, lines) == <<NewlineSegment>>

\* the newline segment appended after a line: the line is compared with the
\* last line by value
LineBreak(line, lines) == IF line # lines[Len(lines)] THEN <<NewlineSegment>> ELSE <<>>

RECURSIVE ParseLines(_, _)
ParseLines(lines, k) ==
  IF k > Len(lines) THEN <<>>
  ELSE LineSegments(lines[k]) \o LineBreak(lines[k], lines) \o ParseLines(lines, k + 1)

ParseMarkup(s) == ParseLines(Split(s), 1)

(* ------------------------------ reducer ------------------------------- *)

CleanLine(line) ==
  IF BulletMatch(line) THEN BulletReplace(line)
  ELSE IF SubBulletMatch(line) THEN SubBulletReplace(line)
  ELSE line

CleanText(s) ==
  LET lines == Split(BoldReplaceAll(s))
  IN Join([i \in 1..Len(lines) |-> CleanLine(lines[i])])

(* ------------------------------ compiler ------------------------------ *)

\* CompileInit, had "no open bullet run" been the zero value of bulletStart
CompileInitZeroSentinel ==
  [plainText |-> <<>>, boldRanges |-> <<>>, bulletRanges |-> <<>>,
   currentPos |-> 0, bulletStart |-> 0, currentBulletLevel |-> 0]

\* the locals of ToSlidesRequests before its loop
CompileInit ==
  [plainText |-> <<>>, boldRanges |-> <<>>, bulletRanges |-> <<>>,
   currentPos |-> 0, bulletStart |-> -1, currentBulletLevel |-> -1]

\* CompileStep, had it extended the previous bold range when a bold segment
\* starts where that range ends
CompileStepMergeBold(st, segment) ==
  LET segmentStart == st.currentPos
      segmentEnd == st.currentPos + GoLen(segment.Text)
      opens == segment.IsBullet /\ st.bulletStart = -1
      closes == ~segment.IsBullet /\ st.bulletStart # -1
      n == Len(st.boldRanges)
      merges == n > 0 /\ st.boldRanges[n].end = segmentStart
  IN [plainText |-> st.plainText \o segment.Text,
      boldRanges |-> IF segment.IsBold
                     THEN IF merges
                          THEN [st.boldRanges EXCEPT ![n].end = segmentEnd]
                          ELSE Append(st.boldRanges, [start |-> segmentStart, end |-> segmentEnd])
                     ELSE st.boldRanges,
      bulletRanges |-> IF closes
                       THEN Append(st.bulletRanges,
                                   [start |-> st.bulletStart, end |-> st.currentPos,
                                    level |-> st.currentBulletLevel])
                       ELSE st.bulletRanges,
      currentPos |-> segmentEnd,
      bulletStart |-> IF opens THEN segmentStart ELSE IF closes THEN -1 ELSE st.bulletStart,
      currentBulletLevel |-> IF opens THEN segment.Level ELSE st.currentBulletLevel]

\* CompileStep, had it closed a bullet run at the end of the breaking segment
CompileStepCloseLate(st, segment) ==
  LET segmentStart == st.currentPos
      segmentEnd == st.currentPos + GoLen(segment.Text)
      opens == segment.IsBullet /\ st.bulletStart = -1
      closes == ~segment.IsBullet /\ st.bulletStart # -1
  IN [plainText |-> st.plainText \o segment.Text,
      boldRanges |-> IF segment.IsBold
                     THEN Append(st.boldRanges, [start |-> segmentStart, end |-> segmentEnd])
                     ELSE st.boldRanges,
      bulletRanges |-> IF closes
                       THEN Append(st.bulletRanges,
                                   [start |-> st.bulletStart, end |-> segmentEnd,
                                    level |-> st.currentBulletLevel])
                       ELSE st.bulletRanges,
      currentPos |-> segmentEnd,
      bulletStart |-> IF opens THEN segmentStart ELSE IF closes THEN -1 ELSE st.bulletStart,
      currentBulletLevel |-> IF opens THEN segment.Level ELSE st.currentBulletLevel]

\* CompileStep, had it taken the level of every bullet segment of a run
CompileStepLastLevel(st, segment) ==
  LET segmentStart == st.currentPos
      segmentEnd == st.currentPos + GoLen(segment.Text)
      opens == segment.IsBullet /\ st.bulletStart = -1
      closes == ~segment.IsBullet /\ st.bulletStart # -1
  IN [plainText |-> st.plainText \o segment.Text,
      boldRanges |-> IF segment.IsBold
                     THEN Append(st.boldRanges, [start |-> segmentStart, end |-> segmentEnd])
                     ELSE st.boldRanges,
      bulletRanges |-> IF closes
                       THEN Append(st.bulletRanges,
                                   [start |-> st.bulletStart, end |-> st.currentPos,
                                    level |-> st.currentBulletLevel])
                       ELSE st.bulletRanges,
      currentPos |-> segmentEnd,
      bulletStart |-> IF opens THEN segmentStart ELSE IF closes THEN -1 ELSE st.bulletStart,
      currentBulletLevel |-> IF segment.IsBullet THEN segment.Level ELSE st.currentBulletLevel]

\* CompileStep, had it left bulletStart set when a non-bullet segment closes
\* the run
CompileStepKeepOpen(st, segment) ==
  LET segmentStart == st.currentPos
      segmentEnd == st.currentPos + GoLen(segment.Text)
      opens == segment.IsBullet /\ st.bulletStart = -1
      closes == ~segment.IsBullet /\ st.bulletStart # -1
  IN [plainText |-> st.plainText \o segment.Text,
      boldRanges |-> IF segment.IsBold
                     THEN Append(st.boldRanges, [start |-> segmentStart, end |-> segmentEnd])
                     ELSE st.boldRanges,
      bulletRanges |-> IF closes
                       THEN Append(st.bulletRanges,
                                   [start |-> st.bulletStart, end |-> st.currentPos,
                                    level |-> st.currentBulletLevel])
                       ELSE st.bulletRanges,
      currentPos |-> segmentEnd,
      bulletStart |-> IF opens THEN segmentStart ELSE st.bulletStart,
      currentBulletLevel |-> IF opens THEN segment.Level ELSE st.currentBulletLevel]

\* one iteration of the loop over the segments
CompileStep(st, segment) ==
  LET segmentStart == st.currentPos
      segmentEnd == st.currentPos + GoLen(segment.Text)
      opens == segment.IsBullet /\ st.bulletStart = -1
      closes == ~segment.IsBullet /\ st.bulletStart # -1
  IN [plainText |-> st.plainText \o segment.Text,
      boldRanges |-> IF segment.IsBold
                     THEN Append(st.boldRanges, [start |-> segmentStart, end |-> segmentEnd])
                     ELSE st.boldRanges,
      bulletRanges |-> IF closes
                       THEN Append(st.bulletRanges,
                                   [start |-> st.bulletStart, end |-> st.currentPos,
                                    level |-> st.currentBulletLevel])
                       ELSE st.bulletRanges,
      currentPos |-> segmentEnd,
      bulletStart |-> IF opens THEN segmentStart ELSE IF closes THEN -1 ELSE st.bulletStart,
      currentBulletLevel |-> IF opens THEN segment.Level ELSE st.currentBulletLevel]

\* the loop over the segments
RECURSIVE CompileLoop(_, _, _)
CompileLoop(st, segs, k) ==
  IF k > Len(segs) THEN st ELSE CompileLoop(CompileStep(st, segs[k]), segs, k + 1)

\* CompileFinal, had the run still open after the loop been forgotten
CompileFinalNone(st) == st

\* "Handle final bullet range"
CompileFinal(st) ==
  IF st.bulletStart # -1
  THEN [st EXCEPT !.bulletRanges =
          Append(@, [start |-> st.bulletStart, end |-> st.currentPos,
                     level |-> st.currentBulletLevel])]
  ELSE st

InsertTextRequest(objectID, t) ==
  [kind |-> "InsertText", ObjectId |-> objectID, InsertionIndex |-> 0, Text |-> t]

UpdateTextStyleRequest(objectID, r) ==
  [kind |-> "UpdateTextStyle", ObjectId |-> objectID, Bold |-> TRUE,
   StartIndex |-> r.start, EndIndex |-> r.end]

BulletPreset(level) ==
  IF level = 1 THEN "BULLET_HOLLOW_CIRCLE_SQUARE" ELSE "BULLET_DISC_CIRCLE_SQUARE"

CreateParagraphBulletsRequest(objectID, r) ==
  [kind |-> "CreateParagraphBullets", ObjectId |-> objectID,
   StartIndex |-> r.start, EndIndex |-> r.end, BulletPreset |-> BulletPreset(r.level)]

\* EmitRequests, had it appended the InsertText after the style requests
EmitRequestsInsertLast(st, objectID) ==
  [i \in 1..Len(st.boldRanges) |-> UpdateTextStyleRequest(objectID, st.boldRanges[i])]
    \o [i \in 1..Len(st.bulletRanges) |->
          CreateParagraphBulletsRequest(objectID, st.bulletRanges[i])]
    \o <<InsertTextRequest(objectID, st.plainText)>>

\* EmitRequests, had it applied the bullets before the bold styles
EmitRequestsBulletsFirst(st, objectID) ==
  <<InsertTextRequest(objectID, st.plainText)>>
    \o [i \in 1..Len(st.bulletRanges) |->
          CreateParagraphBulletsRequest(objectID, st.bulletRanges[i])]
    \o [i \in 1..Len(st.boldRanges) |-> UpdateTextStyleRequest(objectID, st.boldRanges[i])]

\* the three appends to `requests`
EmitRequests(st, objectID) ==
  <<InsertTextRequest(objectID, st.plainText)>>
    \o [i \in 1..Len(st.boldRanges) |-> UpdateTextStyleRequest(objectID, st.boldRanges[i])]
    \o [i \in 1..Len(st.bulletRanges) |->
          CreateParagraphBulletsRequest(objectID, st.bulletRanges[i])]

ToSlidesRequests(segs, objectID) ==
  EmitRequests(CompileFinal(CompileLoop(CompileInit, segs, 1)), objectID)

(* ---------------------------- state machine --------------------------- *)

\* all strings of at most n characters
RECURSIVE Strings(_)
Strings(n) ==
  IF n = 0 THEN {<<>>}
  ELSE LET shorter == Strings(n - 1)
       IN shorter \cup {Append(s, c) : s \in {t \in shorter : Len(t) = n - 1}, c \in Alphabet}

\* the segments a caller hands to ToSlidesRequests; Level is 0 unless the
\* segment is a sub-bullet
SegmentValues ==
  {Segment(t, bold, kind # "plain", IF kind = "sub" THEN 1 ELSE 0) :
     t \in SegTexts, bold \in BOOLEAN, kind \in {"plain", "bullet", "sub"}}

RECURSIVE SegmentSeqs(_)
SegmentSeqs(n) ==
  IF n = 0 THEN {<<>>}
  ELSE LET shorter == SegmentSeqs(n - 1)
       IN shorter \cup
            {Append(s, g) : s \in {t \in shorter : Len(t) = n - 1}, g \in SegmentValues}

\* a caller holds a markup string (a topic's title or summary)
Init ==
  /\ text \in Strings(MaxLen)
  /\ segments = <<>>
  /\ requests = <<>>
  /\ cleaned = <<>>
  /\ have = {"text"}
  /\ pc = "none" /\ SanIdle /\ DsIdle /\ CliIdle /\ WIdle

\* a caller holds a segment sequence it built itself
InitSeg ==
  /\ text = <<>>
  /\ segments \in SegmentSeqs(MaxSegs)
  /\ requests = <<>>
  /\ cleaned = <<>>
  /\ have = {"segments"}
  /\ pc = "none" /\ SanIdle /\ DsIdle /\ CliIdle /\ WIdle

ParseMarkupCall ==
  /\ "text" \in have /\ "segments" \notin have
  /\ segments' = ParseMarkup(text)
  /\ have' = have \cup {"segments"}
  /\ UNCHANGED <<text, requests, cleaned, pc, sanVars, topic, cliVars, wVars>>

ToSlidesRequestsCall ==
  /\ "segments" \in have /\ "requests" \notin have
  /\ requests' = ToSlidesRequests(segments, ObjectID)
  /\ have' = have \cup {"requests"}
  /\ UNCHANGED <<text, segments, cleaned, pc, sanVars, topic, cliVars, wVars>>

CleanTextCall ==
  /\ "text" \in have /\ "cleaned" \notin have
  /\ cleaned' = CleanText(text)
  /\ have' = have \cup {"cleaned"}
  /\ UNCHANGED <<text, segments, requests, pc, sanVars, topic, cliVars, wVars>>

Next == ParseMarkupCall \/ ToSlidesRequestsCall \/ CleanTextCall

Spec == Init /\ [][Next]_vars

NextSeg == ToSlidesRequestsCall

SegSpec == InitSeg /\ [][NextSeg]_vars

(* ------------------- markup-sized inputs of the parser ---------------- *)

\* most tokens an input string of MarkupSpec is built from
MaxTokens == 4

\* the pieces markup is written with: the characters of Alphabet, the bold
\* delimiter and the two bullet prefixes
Tokens ==
  {<<c>> : c \in Alphabet}
    \cup {<<Star, Star>>, <<BulletMark, Space>>, <<Space, Space, SubBulletMark, Space>>}

\* all strings written with at most n tokens
RECURSIVE TokenStrings(_)
TokenStrings(n) ==
  IF n = 0 THEN {<<>>}
  ELSE LET shorter == TokenStrings(n - 1)
       IN shorter \cup {s \o tok : s \in shorter, tok \in Tokens}

\* "**a**b**c**"
AlternatingBoldText ==
  <<42, 42, 97, 42, 42, 98, 42, 42, 99, 42, 42>>

\* "• **Key point** with details"
KeyPointText ==
  <<8226, 32, 42, 42, 75, 101, 121, 32, 112, 111, 105, 110, 116, 42, 42, 32,
    119, 105, 116, 104, 32, 100, 101, 116, 97, 105, 108, 115>>

\* "**Machine Learning** overview:\n• **Supervised** learning\n
\*    ◦ Classification tasks\n• **Unsupervised** learning"
MixedContentText ==
  <<42, 42, 77, 97, 99, 104, 105, 110, 101, 32, 76, 101, 97, 114, 110, 105,
    110, 103, 42, 42, 32, 111, 118, 101, 114, 118, 105, 101, 119, 58, 10, 8226,
    32, 42, 42, 83, 117, 112, 101, 114, 118, 105, 115, 101, 100, 42, 42, 32,
    108, 101, 97, 114, 110, 105, 110, 103, 10, 32, 32, 9702, 32, 67, 108, 97,
    115, 115, 105, 102, 105, 99, 97, 116, 105, 111, 110, 32, 116, 97, 115, 107,
    115, 10, 8226, 32, 42, 42, 85, 110, 115, 117, 112, 101, 114, 118, 105, 115,
    101, 100, 42, 42, 32, 108, 101, 97, 114, 110, 105, 110, 103>>

\* "• a\n• a"
RepeatedBulletLineText ==
  <<8226, 32, 97, 10, 8226, 32, 97>>

\* "• **a**b**"
DanglingAfterBoldText ==
  <<8226, 32, 42, 42, 97, 42, 42, 98, 42, 42>>

ExampleTexts ==
  {AlternatingBoldText, KeyPointText, MixedContentText, RepeatedBulletLineText,
   DanglingAfterBoldText}

\* a caller holds a markup string written with a few tokens, or one of the
\* example strings
InitMarkup ==
  /\ text \in TokenStrings(MaxTokens) \cup ExampleTexts
  /\ segments = <<>>
  /\ requests = <<>>
  /\ cleaned = <<>>
  /\ have = {"text"}
  /\ pc = "none" /\ SanIdle /\ DsIdle /\ CliIdle /\ WIdle

MarkupSpec == InitMarkup /\ [][Next]_vars

(* ------------------------ vocabulary of the claims -------------------- *)

\* the flattened text: the Text of all segments, in order
RECURSIVE Flatten(_)
Flatten(segs) == IF segs = <<>> THEN <<>> ELSE Head(segs).Text \o Flatten(Tail(segs))

\* the increasing sequence of the members of a finite set of integers
RECURSIVE Sorted(_)
Sorted(S) == IF S = {} THEN <<>> ELSE <<Min(S)>> \o Sorted(S \ {Min(S)})

\* positions of the bold segments, left to right
BoldSegments(segs) == Sorted({i \in 1..Len(segs) : segs[i].IsBold})

\* positions at which a maximal run of consecutive bullet segments begins
RunStarts(segs) ==
  Sorted({i \in 1..Len(segs) : segs[i].IsBullet /\ (i = 1 \/ ~segs[i - 1].IsBullet)})

\* position of the last segment of the run that begins at i
RunEnd(segs, i) ==
  CHOOSE j \in i..Len(segs) :
    /\ \A k \in i..j : segs[k].IsBullet
    /\ (j = Len(segs) \/ ~segs[j + 1].IsBullet)

\* len() of the flattened text of the segments before position i
OffsetOf(segs, i) == GoLen(Flatten(SubSeq(segs, 1, i - 1)))

\* number of characters of the flattened text of the segments before position i
CharOffsetOf(segs, i) == Len(Flatten(SubSeq(segs, 1, i - 1)))

OpsOfKind(reqs, k) == SelectSeq(reqs, LAMBDA r : r.kind = k)
BoldOps(reqs) == OpsOfKind(reqs, "UpdateTextStyle")
BulletOps(reqs) == OpsOfKind(reqs, "CreateParagraphBullets")

Parsed == "text" \in have /\ "segments" \in have
Compiled == "requests" \in have
Cleaned == "cleaned" \in have

\* the segments of the lines with one newline segment between consecutive lines
RECURSIVE LinesWithBreaks(_, _)
LinesWithBreaks(lines, k) ==
  IF k > Len(lines) THEN <<>>
  ELSE LineSegments(lines[k])
         \o (IF k < Len(lines) THEN <<NewlineSegment>> ELSE <<>>)
         \o LinesWithBreaks(lines, k + 1)

(* -------------------------------- claims ------------------------------ *)

\* C1: ParseMarkup emits exactly one newline segment between the segment
\* groups of consecutive lines and none after the last line, so the output
\* has as many newline segments as the input has newline characters.
C1_NewlineSegmentPerLineBreak ==
  Parsed =>
    /\ segments = LinesWithBreaks(Split(text), 1)
    /\ Cardinality({i \in 1..Len(segments) : segments[i] = NewlineSegment})
         = Cardinality({i \in 1..Len(text) : text[i] = Newline})

\* C2: the flattened text of ParseMarkup(s) equals CleanText(s).
C2_ParserAgreesWithReducer ==
  (Parsed /\ Cleaned) => Flatten(segments) = cleaned

\* C3: CleanText of the flattened text of ParseMarkup(s) equals CleanText(s).
C3_CleanOfFlattenedIsClean ==
  (Parsed /\ Cleaned) => CleanText(Flatten(segments)) = cleaned

\* C4: CleanText is idempotent: cleaning a cleaned string changes nothing.
C4_CleanTextIdempotent ==
  Cleaned => CleanText(cleaned) = cleaned

\* C5: the first request is an InsertText, the only one, at index 0, whose
\* text is the concatenation of the Text of all segments in order.
C5_InsertTextFirstAndOnly ==
  Compiled =>
    /\ Len(requests) >= 1
    /\ requests[1].kind = "InsertText"
    /\ requests[1].InsertionIndex = 0
    /\ requests[1].Text = Flatten(segments)
    /\ \A i \in 2..Len(requests) : requests[i].kind # "InsertText"

C5_Witness ==
  /\ Compiled
  /\ Len(requests) >= 3
  /\ \E i, j \in 1..Len(segments) : i < j /\ segments[i].Text # segments[j].Text
                                          /\ segments[i].Text # <<>> /\ segments[j].Text # <<>>

\* C6: there are 1 + B + R requests (B bold segments, R maximal runs of
\* bullet segments): the InsertText, then the bold-style requests in
\* left-to-right order of their ranges, then the bullet requests in
\* left-to-right order; no bullet request precedes a bold request.
C6_RequestCountAndOrder ==
  Compiled =>
    LET B == Len(BoldSegments(segments))
        R == Len(RunStarts(segments))
    IN /\ Len(requests) = 1 + B + R
       /\ requests[1].kind = "InsertText"
       /\ \A i \in 2..(1 + B) : requests[i].kind = "UpdateTextStyle"
       /\ \A i \in (2 + B)..(1 + B + R) : requests[i].kind = "CreateParagraphBullets"
       /\ \A i, j \in 2..(1 + B) : i < j => requests[i].EndIndex <= requests[j].StartIndex
       /\ \A i, j \in (2 + B)..(1 + B + R) :
            i < j => requests[i].EndIndex <= requests[j].StartIndex

C6_Witness ==
  /\ Compiled
  /\ Len(BoldSegments(segments)) >= 2
  /\ Len(RunStarts(segments)) >= 2
  /\ \A i \in 1..Len(segments) : segments[i].Text # <<>>

\* C7: the k-th bold-style request starts at the summed lengths of the
\* segments before the k-th bold segment and ends that segment's length
\* later; adjacent bold segments give separate ranges.  Lengths are len().
C7_BoldRangePerBoldSegment ==
  Compiled =>
    LET b == BoldSegments(segments)
        ops == BoldOps(requests)
    IN /\ Len(ops) = Len(b)
       /\ \A k \in 1..Len(b) :
            /\ ops[k].StartIndex = OffsetOf(segments, b[k])
            /\ ops[k].EndIndex = ops[k].StartIndex + GoLen(segments[b[k]].Text)

C7_Witness ==
  /\ Compiled
  /\ \E i \in 1..(Len(segments) - 1) :
       /\ segments[i].IsBold /\ segments[i + 1].IsBold
       /\ segments[i].Text # <<>> /\ segments[i + 1].Text # <<>>
  /\ Len(BoldOps(requests)) >= 2

\* C8: every start and end emitted by ToSlidesRequests is the number of
\* characters (code points) of the flattened text before that position.
C8_OffsetsCountCharacters ==
  Compiled =>
    LET b == BoldSegments(segments)
        runs == RunStarts(segments)
        bold == BoldOps(requests)
        bullet == BulletOps(requests)
    IN /\ \A k \in 1..Len(bold) :
            /\ bold[k].StartIndex = CharOffsetOf(segments, b[k])
            /\ bold[k].EndIndex = CharOffsetOf(segments, b[k] + 1)
       /\ \A r \in 1..Len(bullet) :
            /\ bullet[r].StartIndex = CharOffsetOf(segments, runs[r])
            /\ bullet[r].EndIndex = CharOffsetOf(segments, RunEnd(segments, runs[r]) + 1)

\* C9: every maximal run of bullet segments yields exactly one bullet
\* range: it opens at the start offset of the run's first segment and closes
\* at the start offset of the first following non-bullet segment, or at the
\* final cursor position when the sequence ends inside the run.
C9_BulletRangePerRun ==
  Compiled =>
    LET runs == RunStarts(segments)
        ops == BulletOps(requests)
    IN /\ Len(ops) = Len(runs)
       /\ \A r \in 1..Len(runs) :
            /\ ops[r].StartIndex = OffsetOf(segments, runs[r])
            /\ ops[r].EndIndex = OffsetOf(segments, RunEnd(segments, runs[r]) + 1)

C9_Witness ==
  /\ Compiled
  /\ Len(segments) = 3
  /\ segments[1].IsBullet /\ ~segments[2].IsBullet /\ segments[3].IsBullet
  /\ \A i \in 1..3 : segments[i].Text # <<>>
  /\ Len(BulletOps(requests)) = 2

\* C10: the bullet range of a run whose segments have different levels
\* carries the preset of the level of the run's first segment: level 0 the
\* filled disc, level 1 the hollow circle.
C10_BulletRangeLevelOfFirst ==
  Compiled =>
    LET runs == RunStarts(segments)
        ops == BulletOps(requests)
    IN \A r \in 1..Len(runs) :
         /\ r <= Len(ops)
         /\ segments[runs[r]].Level = 0 => ops[r].BulletPreset = "BULLET_DISC_CIRCLE_SQUARE"
         /\ segments[runs[r]].Level = 1 => ops[r].BulletPreset = "BULLET_HOLLOW_CIRCLE_SQUARE"

C10_Witness ==
  /\ Compiled
  /\ \E i \in 1..(Len(segments) - 1) :
       /\ segments[i].IsBullet /\ segments[i + 1].IsBullet
       /\ (i = 1 \/ ~segments[i - 1].IsBullet)
       /\ segments[i].Level = 1 /\ segments[i + 1].Level = 0
  /\ Len(BulletOps(requests)) = 1

(* ------------------- vocabulary of the parser's claims ---------------- *)

\* "**" somewhere in t
ContainsStars(t) == \E i \in 0..(Len(t) - 2) : StarsAt(t, i)

\* an opening "**" and, after it, a closing "**" in t
ContainsBoldSpan(t) ==
  \E i, j \in 0..(Len(t) - 2) : j >= i + 2 /\ StarsAt(t, i) /\ StarsAt(t, j)

BeginsWithBullet(t) == Len(t) >= 2 /\ SubSeq(t, 1, 2) = <<BulletMark, Space>>

BeginsWithSubBullet(t) ==
  Len(t) >= 4 /\ SubSeq(t, 1, 4) = <<Space, Space, SubBulletMark, Space>>

\* t begins with "• " or with two spaces and "◦ "
BeginsWithMarker(t) == BeginsWithBullet(t) \/ BeginsWithSubBullet(t)

\* a line's classification by its prefix, and the line without the prefix
LineIsBullet(l) == BeginsWithMarker(l)
LineLevel(l) == IF ~BeginsWithBullet(l) /\ BeginsWithSubBullet(l) THEN 1 ELSE 0
LineContent(l) ==
  IF BeginsWithBullet(l) THEN SubSeq(l, 3, Len(l))
  ELSE IF BeginsWithSubBullet(l) THEN SubSeq(l, 5, Len(l))
  ELSE l

\* the lines of the input
Lines == Split(text)

\* offset at which the last closed bold span of c ends, 0 without one
LastClose(c) ==
  LET m == FindAllBold(c, 0) IN IF m = <<>> THEN 0 ELSE m[Len(m)][2]

\* c carries a "**" that no later "**" closes
Dangling(c) == \E i \in LastClose(c)..(Len(c) - 2) : StarsAt(c, i)

\* number of closed bold spans of lines k..
RECURSIVE SpanCount(_, _)
SpanCount(lines, k) ==
  IF k > Len(lines) THEN 0
  ELSE Len(FindAllBold(LineContent(lines[k]), 0)) + SpanCount(lines, k + 1)

(* --------------------------- claims, continued ------------------------ *)

\* C11 as claimed: no segment Text contains "**" or begins with a bullet
\* marker.
C11_NoMarkupInSegmentText ==
  Parsed =>
    \A i \in 1..Len(segments) :
      ~ContainsStars(segments[i].Text) /\ ~BeginsWithMarker(segments[i].Text)

\* C11 as amended: no segment Text contains a complete bold span (a "**" and a
\* later "**"); a Text begins with a bullet marker only when the segment is
\* bold, directly follows a bold segment, or belongs to a bullet line whose
\* content after its own prefix begins with another marker.
C11_NoClosedSpanNorOwnPrefix ==
  Parsed =>
    \A i \in 1..Len(segments) :
      /\ ~ContainsBoldSpan(segments[i].Text)
      /\ BeginsWithMarker(segments[i].Text) =>
           \/ segments[i].IsBold
           \/ i > 1 /\ segments[i - 1].IsBold
           \/ /\ segments[i].IsBullet
              /\ \E k \in 1..Len(Lines) :
                   BeginsWithMarker(Lines[k]) /\ BeginsWithMarker(LineContent(Lines[k]))

C11_Witness ==
  /\ Parsed
  /\ \E i \in 1..Len(segments) : segments[i].IsBullet /\ ContainsStars(segments[i].Text)
  /\ \E i \in 1..Len(segments) : segments[i].IsBold

\* C12: in a line with a "**" that no later "**" closes, the dangling "**"
\* forms no bold span (there are as many bold segments as closed spans) and
\* the text after the last closed span is one non-bold segment with the
\* line's bullet flag and level.
C12_DanglingMarkerIsPlainText ==
  Parsed =>
    /\ Len(BoldSegments(segments)) = SpanCount(Lines, 1)
    /\ \A k \in 1..Len(Lines) :
         LET c == LineContent(Lines[k])
         IN Dangling(c) =>
              \E n \in 1..Len(segments) :
                segments[n] = Segment(SubSeq(c, LastClose(c) + 1, Len(c)), FALSE,
                                      LineIsBullet(Lines[k]), LineLevel(Lines[k]))

C12_Witness ==
  /\ Parsed
  /\ text = DanglingAfterBoldText
  /\ Dangling(LineContent(text))
  /\ LastClose(LineContent(text)) > 0

\* the segments that are not newline segments
ContentSegments(segs) == SelectSeq(segs, LAMBDA g : g # NewlineSegment)

\* the contents of the closed bold spans of lines k.., in source order
RECURSIVE SpanTexts(_, _)
SpanTexts(lines, k) ==
  IF k > Len(lines) THEN <<>>
  ELSE LET c == LineContent(lines[k])
           m == FindAllBold(c, 0)
       IN [n \in 1..Len(m) |-> SubSeq(c, m[n][3] + 1, m[n][4])] \o SpanTexts(lines, k + 1)

\* the contents of lines k.. without the delimiters of their closed spans
RECURSIVE SpansRemoved(_, _)
SpansRemoved(lines, k) ==
  IF k > Len(lines) THEN <<>>
  ELSE BoldReplaceAll(LineContent(lines[k])) \o SpansRemoved(lines, k + 1)

\* C13: bold spans are found left to right and do not nest: the first "**"
\* after an opening "**" closes it, so "**a**b**c**" yields bold "a", plain
\* "b", bold "c"; the segments appear in source order and exactly the
\* contents of the closed spans are the bold segments.
C13_BoldSpansLeftToRight ==
  Parsed =>
    /\ text = AlternatingBoldText =>
         segments = <<Segment(<<97>>, TRUE, FALSE, 0), Segment(<<98>>, FALSE, FALSE, 0),
                      Segment(<<99>>, TRUE, FALSE, 0)>>
    /\ \A i \in 1..Len(segments) : segments[i].IsBold => ~ContainsStars(segments[i].Text)
    /\ [n \in 1..Len(BoldSegments(segments)) |-> segments[BoldSegments(segments)[n]].Text]
         = SpanTexts(Lines, 1)
    /\ Flatten(ContentSegments(segments)) = SpansRemoved(Lines, 1)

C13_Witness ==
  /\ Parsed
  /\ text = AlternatingBoldText
  /\ Len(segments) = 3

\* the segments of lines k.., each line classified by its prefix alone
RECURSIVE ClassifiedSegments(_, _)
ClassifiedSegments(lines, k) ==
  IF k > Len(lines) THEN <<>>
  ELSE parseBoldInText(LineContent(lines[k]), LineIsBullet(lines[k]), LineLevel(lines[k]))
         \o ClassifiedSegments(lines, k + 1)

\* C14: a line is a bullet line only by a prefix at its start: "• " gives
\* level 0, exactly two spaces and "◦ " give level 1; the prefix is removed
\* and every segment of the line is a bullet segment of that level.  Any
\* other line is plain: its segments are not bullet segments and a marker
\* elsewhere in it stays in the text.
C14_BulletOnlyByLinePrefix ==
  Parsed =>
    /\ ContentSegments(segments) = ClassifiedSegments(Lines, 1)
    /\ \A i \in 1..Len(segments) : ~segments[i].IsBullet => segments[i].Level = 0

C14_Witness ==
  /\ Parsed
  /\ \E k \in 1..Len(Lines) : LineIsBullet(Lines[k]) /\ LineContent(Lines[k]) # <<>>
  /\ \E k \in 1..Len(Lines) :
       /\ ~LineIsBullet(Lines[k])
       /\ \E p \in 1..Len(Lines[k]) : Lines[k][p] \in {BulletMark, SubBulletMark}
  /\ \E i \in 1..Len(segments) : segments[i].IsBullet
  /\ \E i \in 1..Len(segments) :
       ~segments[i].IsBullet /\ segments[i] # NewlineSegment

\* no line of the input has a closed bold span or a bullet prefix
NoMarkup == \A k \in 1..Len(Lines) : ~LineIsBullet(Lines[k]) /\ FindAllBold(Lines[k], 0) = <<>>

\* one plain segment per line (an empty line has no text and gives none),
\* with a newline segment between consecutive lines
RECURSIVE PlainLines(_, _)
PlainLines(lines, k) ==
  IF k > Len(lines) THEN <<>>
  ELSE (IF lines[k] = <<>> THEN <<>> ELSE <<Segment(lines[k], FALSE, FALSE, 0)>>)
         \o (IF k < Len(lines) THEN <<NewlineSegment>> ELSE <<>>)
         \o PlainLines(lines, k + 1)

\* C15: for a string without markup ParseMarkup yields, per line, one
\* segment whose text is the line, not bold and not bullet, with newline
\* segments between the lines; for a single line, one segment with Text = s.
C15_PlainTextOneSegmentPerLine ==
  (Parsed /\ NoMarkup) => segments = PlainLines(Lines, 1)

\* C16: compiling the empty string, or any input that produces zero
\* segments, yields exactly one request, an InsertText with empty text, and
\* no bold-style or bullet request.
C16_EmptyInputInsertsEmptyText ==
  (Parsed /\ Compiled /\ segments = <<>>) =>
    /\ Len(requests) = 1
    /\ requests[1].kind = "InsertText"
    /\ requests[1].Text = <<>>
    /\ BoldOps(requests) = <<>>
    /\ BulletOps(requests) = <<>>

C16_Witness ==
  /\ Parsed /\ Compiled
  /\ text = <<>>
  /\ segments = <<>>

\* the requests of the "Key point" example with its bullet range ending at e
KeyPointRequests(e) ==
  /\ Len(requests) = 3
  /\ requests[1].kind = "InsertText"
  /\ requests[1].Text = <<75, 101, 121, 32, 112, 111, 105, 110, 116, 32, 119, 105, 116, 104, 32, 100, 101, 116, 97, 105, 108, 115>>
  /\ requests[2].kind = "UpdateTextStyle"
  /\ requests[2].StartIndex = 0 /\ requests[2].EndIndex = 9
  /\ requests[3].kind = "CreateParagraphBullets"
  /\ requests[3].StartIndex = 0 /\ requests[3].EndIndex = e
  /\ requests[3].BulletPreset = "BULLET_DISC_CIRCLE_SQUARE"

\* C17 as claimed: "• **Key point** with details" compiles to one InsertText,
\* one bold range [0,9) and one bullet range [0,18) of level 0.
C17_KeyPointBulletEndsAt18 ==
  (Parsed /\ Compiled /\ text = KeyPointText) => KeyPointRequests(18)

\* C17 as amended: "• **Key point** with details" compiles to one InsertText,
\* one bold range [0,9) and one bullet range [0,22) of level 0, 22 being the
\* length of "Key point with details".
C17_KeyPointBulletEndsAt22 ==
  (Parsed /\ Compiled /\ text = KeyPointText) => KeyPointRequests(22)

C17_Witness ==
  /\ Parsed /\ Compiled
  /\ text = KeyPointText
  /\ Len(segments) = 2

\* the segments and requests of the four-line example, with n content segments
MixedContentCounts(n) ==
  /\ Parsed =>
       /\ Len(ContentSegments(segments)) = n
       /\ Len(segments) - Len(ContentSegments(segments)) = 3
  /\ Compiled =>
       /\ Len(OpsOfKind(requests, "InsertText")) = 1
       /\ Len(BoldOps(requests)) = 3
       /\ Len(BulletOps(requests)) = 3
       /\ Len(requests) = 7

\* C18 as claimed: the four-line example parses to 8 content segments and 3
\* newline segments and compiles to 1 InsertText, 3 bold-style and 3 bullet
\* requests.
C18_MixedContentEightSegments ==
  text = MixedContentText => MixedContentCounts(8)

\* C18 as amended: the four-line example parses to 7 content segments and 3
\* newline segments and compiles to 1 InsertText, 3 bold-style and 3 bullet
\* requests.
C18_MixedContentSevenSegments ==
  text = MixedContentText => MixedContentCounts(7)

C18_Witness ==
  /\ Parsed /\ Compiled
  /\ text = MixedContentText
  /\ Len(segments) = 10

\* positions of the bullet lines that have content, top to bottom
BulletLines ==
  Sorted({k \in 1..Len(Lines) : LineIsBullet(Lines[k]) /\ LineContent(Lines[k]) # <<>>})

\* C19: no bullet range spans lines: there is one bullet range per bullet
\* line, covering that line's text, and the ranges of two consecutive bullet
\* lines are apart by the newline between them.  Lengths are len().
C19_BulletRangePerLine ==
  (Parsed /\ Compiled) =>
    LET ops == BulletOps(requests)
    IN /\ Len(ops) = Len(BulletLines)
       /\ \A r \in 1..Len(BulletLines) :
            r <= Len(ops) =>
              ops[r].EndIndex - ops[r].StartIndex
                = GoLen(BoldReplaceAll(LineContent(Lines[BulletLines[r]])))
       /\ \A r \in 1..(Len(ops) - 1) : ops[r].EndIndex < ops[r + 1].StartIndex

\* C20: CleanText keeps the line breaks and every character that is not
\* markup: the output has as many newlines as the input, and its line i is
\* line i of the input without the delimiters of its closed bold spans and
\* without at most one bullet prefix leading the line; every other character
\* is kept, in order.
C20_CleanTextKeepsLinesAndText ==
  Cleaned =>
    LET out == Split(cleaned)
    IN /\ Cardinality({i \in 1..Len(cleaned) : cleaned[i] = Newline})
            = Cardinality({i \in 1..Len(text) : text[i] = Newline})
       /\ Len(out) = Len(Lines)
       /\ \A k \in 1..Len(Lines) :
            k <= Len(out) => out[k] = BoldReplaceAll(LineContent(Lines[k]))

\* the style and bullet requests of a request list
RangeOps(reqs) == SelectSeq(reqs, LAMBDA r : r.kind # "InsertText")

\* C27: for every input string, every bold-style and bullet-preset request
\* of ToSlidesRequests(ParseMarkup(s)) has a non-empty range, start < end,
\* also for inputs with an empty bold span such as "****" or "• ****"
C27_RangesNonEmpty ==
  Parsed /\ Compiled =>
    \A i \in 1..Len(RangeOps(requests)) :
      RangeOps(requests)[i].StartIndex < RangeOps(requests)[i].EndIndex

\* range a ends where range b starts, or before
Before(a, b) == a.EndIndex <= b.StartIndex
\* range a lies inside range b
Inside(a, b) == b.StartIndex <= a.StartIndex /\ a.EndIndex <= b.EndIndex

\* a non-bullet segment stands between the ranges a and b: a ends where the
\* segment starts and b starts at the segment's end or after it
SeparatedBySegment(segs, a, b) ==
  \E j \in 1..Len(segs) :
    /\ ~segs[j].IsBullet
    /\ a.EndIndex = OffsetOf(segs, j)
    /\ OffsetOf(segs, j + 1) <= b.StartIndex

\* C28: for every segment sequence the ranges of ToSlidesRequests are well
\* formed against the inserted text (lengths as len() counts them):
\* 0 <= start <= end <= length of the text; the bold ranges are pairwise
\* disjoint and increasing; the bullet ranges are pairwise disjoint,
\* increasing and separated by a non-bullet segment; a bold range lies inside
\* one bullet range or outside all of them
C28_RangesWellFormed ==
  Compiled =>
    LET all == RangeOps(requests)
        bold == BoldOps(requests)
        bullet == BulletOps(requests)
    IN /\ \A i \in 1..Len(all) :
            /\ 0 <= all[i].StartIndex
            /\ all[i].StartIndex <= all[i].EndIndex
            /\ all[i].EndIndex <= GoLen(requests[1].Text)
       /\ \A i, j \in 1..Len(bold) : i < j => Before(bold[i], bold[j])
       /\ \A i, j \in 1..Len(bullet) : i < j => Before(bullet[i], bullet[j])
       /\ \A i \in 1..(Len(bullet) - 1) :
            SeparatedBySegment(segments, bullet[i], bullet[i + 1])
       /\ \A i \in 1..Len(bold) :
            \/ \E j \in 1..Len(bullet) : Inside(bold[i], bullet[j])
            \/ \A j \in 1..Len(bullet) :
                 Before(bold[i], bullet[j]) \/ Before(bullet[j], bold[i])

\* two bullet ranges around a non-bullet segment, and a non-empty bold range
\* inside one of them
C28_Witness ==
  /\ Compiled
  /\ Len(BulletOps(requests)) = 2
  /\ BulletOps(requests)[1].EndIndex < BulletOps(requests)[2].StartIndex
  /\ \E i \in 1..Len(BoldOps(requests)) :
       /\ BoldOps(requests)[i].StartIndex < BoldOps(requests)[i].EndIndex
       /\ \E j \in 1..2 : Inside(BoldOps(requests)[i], BulletOps(requests)[j])

(* ====================== the command line run (main) =================== *)

(* --------------------------- package strings -------------------------- *)

\* unicode.ToLower / unicode.ToUpper on the characters of the inputs: ASCII
\* and Latin-1 letters
LowerRune(c) ==
  IF c \in 65..90 \/ (c \in 192..222 /\ c # 215) THEN c + 32 ELSE c
UpperRune(c) ==
  IF c \in 97..122 \/ (c \in 224..254 /\ c # 247) THEN c - 32 ELSE c

\* strings.ToLower(s), strings.ToUpper(s)
ToLower(s) == [i \in 1..Len(s) |-> LowerRune(s[i])]
ToUpper(s) == [i \in 1..Len(s) |-> UpperRune(s[i])]

\* unicode.IsSpace
IsSpace(c) ==
  c \in {9, 10, 11, 12, 13, 32, 133, 160, 5760, 8232, 8233, 8239, 8287, 12288}
    \cup 8192..8202

\* strings.TrimSpace(s)
TrimSpace(s) ==
  LET keep == {i \in 1..Len(s) : ~IsSpace(s[i])}
  IN IF keep = {} THEN <<>>
     ELSE SubSeq(s, Min(keep), CHOOSE i \in keep : \A j \in keep : j <= i)

\* strings.HasPrefix(s, p)
HasPrefix(s, p) == Len(s) >= Len(p) /\ SubSeq(s, 1, Len(p)) = p

\* 0-based offsets at which p occurs in s
Occurrences(s, p) == {i \in 0..(Len(s) - Len(p)) : Slice(s, i, i + Len(p)) = p}

\* strings.Contains(s, p)
Contains(s, p) == Occurrences(s, p) # {}

\* strings.ReplaceAll(s, p, "") for a non-empty p: the occurrences of p are
\* removed left to right, without overlap, in one pass over s
RECURSIVE RemoveAll(_, _)
RemoveAll(s, p) ==
  IF ~Contains(s, p) THEN s
  ELSE LET i == Min(Occurrences(s, p))
       IN Slice(s, 0, i) \o RemoveAll(Slice(s, i + Len(p), Len(s)), p)

(* ----------------------- sanitizeAdversarialInput --------------------- *)

\* badPhrases, in the order of the list
badPhrases ==
  << <<105, 103, 110, 111, 114, 101, 32, 112, 114, 101, 118, 105, 111, 117, 115,
       32, 105, 110, 115, 116, 114, 117, 99, 116, 105, 111, 110, 115>>,
     <<100, 105, 115, 114, 101, 103, 97, 114, 100, 32, 112, 114, 101, 118, 105,
       111, 117, 115>>,
     <<111, 118, 101, 114, 114, 105, 100, 101, 32, 115, 97, 102, 101, 116, 121>>,
     <<114, 101, 118, 101, 97, 108, 32, 99, 114, 101, 100, 101, 110, 116, 105,
       97, 108, 115>>,
     <<115, 104, 111, 119, 32, 115, 101, 99, 114, 101, 116, 115>>,
     <<100, 105, 115, 97, 98, 108, 101, 32, 103, 117, 97, 114, 100, 114, 97, 105,
       108, 115>>,
     <<116, 117, 114, 110, 32, 111, 102, 102, 32, 115, 97, 102, 101, 116, 121>> >>

\* the loop over badPhrases, from phrase k on
RECURSIVE StripPhrases(_, _)
StripPhrases(lower, k) ==
  IF k > Len(badPhrases) THEN lower
  ELSE StripPhrases(IF Contains(lower, badPhrases[k])
                      THEN RemoveAll(lower, badPhrases[k]) ELSE lower,
                    k + 1)

sanitizeAdversarialInput(s) == TrimSpace(StripPhrases(ToLower(s), 1))

\* most pieces a subject of SanitizeSpec is written with
MaxPieces == 3

\* the pieces: every phrase of the list, "Show Secrets", the two halves of
\* "show secrets" and of "reveal credentials", "x" and " "
Pieces ==
  {badPhrases[k] : k \in 1..Len(badPhrases)}
    \cup {<<83, 104, 111, 119, 32, 83, 101, 99, 114, 101, 116, 115>>,
          <<115, 104, 111, 119, 32, 115>>, <<101, 99, 114, 101, 116, 115>>,
          <<114, 101, 118, 101, 97, 108, 32, 99, 114, 101, 100, 101>>,
          <<110, 116, 105, 97, 108, 115>>,
          <<120>>, <<32>>}

\* all strings written with at most n pieces
RECURSIVE PieceStrings(_)
PieceStrings(n) ==
  IF n = 0 THEN {<<>>}
  ELSE LET shorter == PieceStrings(n - 1)
       IN shorter \cup {s \o piece : s \in shorter, piece \in Pieces}

\* the user passes --subject
InitSanitize ==
  /\ subject \in PieceStrings(MaxPieces)
  /\ sub = <<>>
  /\ pc = "sanitize"
  /\ FmtIdle /\ DsIdle /\ CliIdle /\ WIdle

\* sub := sanitizeAdversarialInput(strings.TrimSpace(*subject))
SanitizeInputs ==
  /\ pc = "sanitize"
  /\ sub' = sanitizeAdversarialInput(TrimSpace(subject))
  /\ pc' = "sanitized"
  /\ UNCHANGED <<fmtVars, subject, topic, cliVars, wVars>>

NextSanitize == SanitizeInputs

SanitizeSpec == InitSanitize /\ [][NextSanitize]_vars

\* C23: after sanitizeAdversarialInput the subject contains none of the
\* listed phrases, in any letter case, also when the removal of one
\* occurrence joined the text around it into another occurrence
C23_NoBadPhraseInSanitizedInput ==
  pc = "sanitized" =>
    \A k \in 1..Len(badPhrases) : ~Contains(ToLower(sub), badPhrases[k])

(* ---------------------------- sanitizeDataset ------------------------- *)

\* a *Dataset: the nil pointer, or a pointer to a dataset
NilDataset == <<>>
DatasetOf(d) == <<d>>

DataPoint(label, value) == [Label |-> label, Value |-> value]

\* a float64 is written as a numeral or as one of "NaN", "+Inf", "-Inf"
IsNaN(v) == v = "NaN"
IsInf(v) == v \in {"+Inf", "-Inf"}

maxPoints == 20

\* "timeseries", "category", "comparison"
TypeTimeseries == <<116, 105, 109, 101, 115, 101, 114, 105, 101, 115>>
TypeCategory == <<99, 97, 116, 101, 103, 111, 114, 121>>
TypeComparison == <<99, 111, 109, 112, 97, 114, 105, 115, 111, 110>>

\* the loop over the points: the valid ones, their labels trimmed
RECURSIVE ValidPoints(_)
ValidPoints(points) ==
  IF points = <<>> THEN <<>>
  ELSE LET p == Head(points)
           label == TrimSpace(p.Label)
       IN IF label = <<>> \/ IsNaN(p.Value) \/ IsInf(p.Value)
          THEN ValidPoints(Tail(points))
          ELSE <<DataPoint(label, p.Value)>> \o ValidPoints(Tail(points))

\* sanitizeDataset(t): the topic as the call leaves it
sanitizeDataset(t) ==
  IF t.Dataset = NilDataset THEN t
  ELSE LET ds == t.Dataset[1]
           cut == IF Len(ds.Points) > maxPoints THEN SubSeq(ds.Points, 1, maxPoints)
                  ELSE ds.Points
           valid == ValidPoints(cut)
       IN IF Len(valid) = 0
          THEN [t EXCEPT !.Dataset = NilDataset, !.Quantifiable = FALSE]
          ELSE [t EXCEPT
                  !.Quantifiable = TRUE,
                  !.Dataset =
                    DatasetOf([ds EXCEPT
                      !.Points = valid,
                      !.Type =
                        IF ToLower(TrimSpace(ds.Type))
                             \in {TypeTimeseries, TypeCategory, TypeComparison}
                        THEN ds.Type ELSE TypeCategory])]

\* most points of a dataset of DatasetSpec that vary freely
MaxPoints == 2

\* labels "", " ", "a", " a"; values 1, NaN, +Inf
PointInputs ==
  {DataPoint(l, v) : l \in {<<>>, <<32>>, <<97>>, <<32, 97>>}, v \in {"1", "NaN", "+Inf"}}

RECURSIVE PointSeqs(_)
PointSeqs(n) ==
  IF n = 0 THEN {<<>>}
  ELSE LET shorter == PointSeqs(n - 1)
       IN shorter \cup
            {Append(s, p) : s \in {t \in shorter : Len(t) = n - 1}, p \in PointInputs}

\* datasets longer than maxPoints: maxPoints times one point, then another
LongPointSeqs ==
  {[i \in 1..(maxPoints + 1) |-> IF i <= maxPoints THEN p ELSE q] :
     p \in PointInputs, q \in PointInputs}

\* the Type strings a model returns: the three of the schema, "Timeseries",
\* " timeseries ", "" and "pie"
TypeInputs ==
  {TypeTimeseries, TypeCategory, TypeComparison,
   <<84, 105, 109, 101, 115, 101, 114, 105, 101, 115>>,
   <<32, 116, 105, 109, 101, 115, 101, 114, 105, 101, 115, 32>>,
   <<>>, <<112, 105, 101>>}

DatasetInputs ==
  {NilDataset} \cup
    {DatasetOf([Title |-> <<97>>, Unit |-> <<>>, Type |-> ty, Points |-> pts]) :
       ty \in TypeInputs, pts \in PointSeqs(MaxPoints) \cup LongPointSeqs}

\* a topic as json.Unmarshal leaves it
InitDataset ==
  /\ topic \in {[Topic |-> <<97>>, Summary |-> <<97>>, Quantifiable |-> q, Dataset |-> d] :
                  q \in BOOLEAN, d \in DatasetInputs}
  /\ pc = "sanitizeDataset"
  /\ FmtIdle /\ SanIdle /\ CliIdle /\ WIdle

\* sanitizeDataset(&topics[i])
SanitizeDatasetCall ==
  /\ pc = "sanitizeDataset"
  /\ topic' = sanitizeDataset(topic)
  /\ pc' = "datasetSanitized"
  /\ UNCHANGED <<fmtVars, sanVars, cliVars, wVars>>

NextDataset == SanitizeDatasetCall

DatasetSpec == InitDataset /\ [][NextDataset]_vars

\* C29: after sanitizeDataset a topic has no dataset and Quantifiable =
\* false, or has a dataset of 1 to 20 points with non-empty trimmed labels,
\* Quantifiable = true and a Type that is exactly "timeseries", "category"
\* or "comparison"
C29_DatasetSanitized ==
  pc = "datasetSanitized" =>
    \/ topic.Dataset = NilDataset /\ ~topic.Quantifiable
    \/ /\ topic.Dataset # NilDataset
       /\ topic.Quantifiable
       /\ Len(topic.Dataset[1].Points) \in 1..maxPoints
       /\ \A i \in 1..Len(topic.Dataset[1].Points) :
            LET l == topic.Dataset[1].Points[i].Label
            IN l # <<>> /\ TrimSpace(l) = l
       /\ topic.Dataset[1].Type \in {TypeTimeseries, TypeCategory, TypeComparison}

(* ------------------------------ classifyInputs ------------------------ *)

\* "429", "RESOURCE_EXHAUSTED"
Text429 == <<52, 50, 57>>
TextResourceExhausted ==
  <<82, 69, 83, 79, 85, 82, 67, 69, 95, 69, 88, 72, 65, 85, 83, 84, 69, 68>>

\* isRateLimitErr(err), on the error's message
isRateLimitErr(msg) ==
  LET s == ToUpper(msg)
  IN Contains(s, Text429) \/ Contains(s, TextResourceExhausted)

\* "TRUE", "FALSE"
TextTRUE == <<84, 82, 85, 69>>
TextFALSE == <<70, 65, 76, 83, 69>>

\* ClassifierVerdict, had the first failure been retried whatever its error
ClassifierVerdictRetryAny(attempt, answer) ==
  IF ~answer.ok
  THEN IF attempt = 0 THEN "continue" ELSE "error"
  ELSE LET out == TrimSpace(ToUpper(answer.text))
       IN IF out = TextTRUE THEN "risky"
          ELSE IF out = TextFALSE THEN "safe"
          ELSE "error"

\* what one iteration of the loop of classifyInputs does with the answer of
\* GenerateContent: "continue" (sleep and call again), or the value returned
\* to main: "risky" (true, nil), "safe" (false, nil), "error" (false, err)
ClassifierVerdict(attempt, answer) ==
  IF ~answer.ok
  THEN IF attempt = 0 /\ isRateLimitErr(answer.text) THEN "continue" ELSE "error"
  ELSE LET out == TrimSpace(ToUpper(answer.text))
       IN IF out = TextTRUE THEN "risky"
          ELSE IF out = TextFALSE THEN "safe"
          ELSE "error"

\* the answers of the model to the classifier prompt, each with what it is:
\* "TRUE", " true\n"; "FALSE"; "maybe"; the errors "Error 429: quota",
\* "resource_exhausted" and "deadline exceeded"
ClassifierAnswers ==
  {[ok |-> TRUE, is |-> "TRUE", text |-> <<84, 82, 85, 69>>],
   [ok |-> TRUE, is |-> "TRUE", text |-> <<32, 116, 114, 117, 101, 10>>],
   [ok |-> TRUE, is |-> "FALSE", text |-> <<70, 65, 76, 83, 69>>],
   [ok |-> TRUE, is |-> "other", text |-> <<109, 97, 121, 98, 101>>],
   [ok |-> FALSE, is |-> "rate limit",
    text |-> <<69, 114, 114, 111, 114, 32, 52, 50, 57, 58, 32, 113, 117, 111, 116, 97>>],
   [ok |-> FALSE, is |-> "rate limit",
    text |-> <<114, 101, 115, 111, 117, 114, 99, 101, 95, 101, 120, 104, 97, 117,
               115, 116, 101, 100>>],
   [ok |-> FALSE, is |-> "failure",
    text |-> <<100, 101, 97, 100, 108, 105, 110, 101, 32, 101, 120, 99, 101, 101,
               100, 101, 100>>]}

\* the calls of one kind made so far
CallsOf(kind) == SelectSeq(modelCalls, LAMBDA c : c.call = kind)

\* one iteration of the loop of classifyInputs, and what main does with the
\* value returned
ClassifierCall ==
  /\ pc = "classify"
  /\ \E answer \in ClassifierAnswers :
       LET attempt == Len(CallsOf("classify"))
           verdict == ClassifierVerdict(attempt, answer)
       IN /\ modelCalls' = Append(modelCalls, [call |-> "classify", ok |-> answer.ok,
                                               is |-> answer.is, text |-> answer.text,
                                               parsed |-> <<>>])
          /\ pc' = CASE verdict = "continue" -> "classify"
                     [] verdict = "risky" -> "exit"
                     [] OTHER -> "generate"
          /\ logged' = CASE verdict = "risky" -> Append(logged, "fatal: inputs flagged")
                         [] verdict = "error" -> Append(logged, "warning: classifier error")
                         [] OTHER -> logged
  /\ UNCHANGED <<fmtVars, sanVars, topic, flags, topics, printed, rich, image, wVars>>

(* ------------------------------- generation --------------------------- *)

\* a topic of a model answer without a dataset, and one with a dataset of
\* type "Timeseries" whose second point has a blank label
PlainTopic ==
  [Topic |-> <<97>>, Summary |-> <<8226, 32, 42, 42, 97, 42, 42>>,
   Quantifiable |-> FALSE, Dataset |-> NilDataset]
ChartTopic ==
  [Topic |-> <<32, 97>>, Summary |-> <<97>>, Quantifiable |-> TRUE,
   Dataset |-> DatasetOf([Title |-> <<97>>, Unit |-> <<>>,
                          Type |-> <<84, 105, 109, 101, 115, 101, 114, 105, 101, 115>>,
                          Points |-> <<DataPoint(<<97>>, "1"), DataPoint(<<32>>, "1")>>])]

\* longest topic list of a model answer
MaxAnswer == 2

RECURSIVE TopicLists(_)
TopicLists(n) ==
  IF n = 0 THEN {<<>>}
  ELSE LET shorter == TopicLists(n - 1)
       IN shorter \cup
            {Append(l, t) : l \in {k \in shorter : Len(k) = n - 1},
                            t \in {PlainTopic, ChartTopic}}

\* the answers of the model to the topic prompt: an error, a text that
\* json.Unmarshal rejects after extractJSON (parsed is empty), or a text it
\* accepts (parsed holds the topic list)
GenerateAnswers ==
  {[ok |-> FALSE, parsed |-> <<>>], [ok |-> TRUE, parsed |-> <<>>]}
    \cup {[ok |-> TRUE, parsed |-> <<l>>] : l \in TopicLists(MaxAnswer)}

\* json.Unmarshal accepted the answer
Parses(answer) == answer.ok /\ answer.parsed # <<>>

\* GenerateCall, had a failed retry been followed by another retry
GenerateCallRetryAgain(kind) ==
  /\ \E answer \in GenerateAnswers :
       /\ modelCalls' = Append(modelCalls, [call |-> kind, ok |-> answer.ok,
                                            is |-> "topics", text |-> <<>>,
                                            parsed |-> answer.parsed])
       /\ IF ~answer.ok
          THEN /\ pc' = "exit"
               /\ logged' = Append(logged, "fatal: generate content")
               /\ UNCHANGED topics
          ELSE IF Parses(answer)
          THEN /\ pc' = "print"
               /\ topics' = answer.parsed[1]
               /\ UNCHANGED logged
          ELSE /\ pc' = "retry"
               /\ UNCHANGED <<topics, logged>>
  /\ UNCHANGED <<fmtVars, sanVars, topic, flags, printed, rich, image, wVars>>

\* client.Models.GenerateContent with the prompt (kind "generate") or with
\* the strict-JSON prompt (kind "retry"), and the json.Unmarshal of its text
GenerateCall(kind) ==
  /\ \E answer \in GenerateAnswers :
       /\ modelCalls' = Append(modelCalls, [call |-> kind, ok |-> answer.ok,
                                            is |-> "topics", text |-> <<>>,
                                            parsed |-> answer.parsed])
       /\ IF ~answer.ok
          THEN /\ pc' = "exit"
               /\ logged' = Append(logged, "fatal: generate content")
               /\ UNCHANGED topics
          ELSE IF Parses(answer)
          THEN /\ pc' = "print"
               /\ topics' = answer.parsed[1]
               /\ UNCHANGED logged
          ELSE IF kind = "generate"
          THEN /\ pc' = "retry"
               /\ UNCHANGED <<topics, logged>>
          ELSE /\ pc' = "exit"
               /\ logged' = Append(logged, "fatal: invalid JSON from model")
               /\ UNCHANGED topics
  /\ UNCHANGED <<fmtVars, sanVars, topic, flags, printed, rich, image, wVars>>

\* res, err := client.Models.GenerateContent(ctx, *model, genai.Text(prompt), nil)
FirstGenerateCall == pc = "generate" /\ GenerateCall("generate")

\* res2, err2 := client.Models.GenerateContent(ctx, *model, genai.Text(retryPrompt), nil)
RetryGenerateCall == pc = "retry" /\ GenerateCall("retry")

\* the clamp to --max, the trimming and sanitizeDataset of every topic
Postprocess(list, max) ==
  LET cut == IF Len(list) > max THEN SubSeq(list, 1, max) ELSE list
  IN [i \in 1..Len(cut) |->
        sanitizeDataset([cut[i] EXCEPT !.Topic = TrimSpace(@), !.Summary = TrimSpace(@)])]

\* the topics are clamped, sanitized and printed
PrintTopics ==
  /\ pc = "print"
  /\ topics' = Postprocess(topics, flags.maxTopics)
  /\ printed' = Append(printed, topics')
  /\ pc' = IF flags.presentationID THEN "creds" ELSE "done"
  /\ UNCHANGED <<fmtVars, sanVars, topic, flags, modelCalls, logged, rich, image, wVars>>

\* the credentials are read and the Slides and Sheets services built; any
\* failure is logged and ends the run
LoadCredentials ==
  /\ pc = "creds"
  /\ \E creds \in {"unset", "unreadable", "rejected", "ok"} :
       IF creds = "ok"
       THEN pc' = "rich" /\ UNCHANGED logged
       ELSE pc' = "done" /\ logged' = Append(logged, "skipping Slides editing")
  /\ UNCHANGED <<fmtVars, sanVars, topic, flags, modelCalls, topics, printed, rich, image,
                 wVars>>

(* ------------------------------ image choice -------------------------- *)

\* "https://", "image/"
TextHttps == <<104, 116, 116, 112, 115, 58, 47, 47>>
TextImage == <<105, 109, 97, 103, 101, 47>>

\* --default-image-url: "https://d"
defaultImage == <<104, 116, 116, 112, 115, 58, 47, 47, 100>>

\* imagesearch.SearchBestImage(ctx, key, cx, query, opts): "" when the query
\* is blank or the search fails or finds nothing, else the link of the best
\* item; `found` is what the search service has for the query
SearchBestImage(query, found) == IF TrimSpace(query) = <<>> THEN <<>> ELSE found

\* validateImageURL(ctx, imageURL, defaultURL); `head` is the outcome of the
\* HEAD request
validateImageURL(imageURL, defaultURL, head) ==
  IF ~HasPrefix(ToLower(imageURL), TextHttps) THEN defaultURL
  ELSE IF head.err THEN defaultURL
  ELSE IF head.status # 200 THEN defaultURL
  ELSE LET ct == ToLower(head.contentType)
       IN IF ~HasPrefix(ct, TextImage) /\ ct # <<>> THEN defaultURL ELSE imageURL

\* what a search finds: nothing, "HTTPS://a" or "http://a"
SearchResults ==
  {<<>>, <<72, 84, 84, 80, 83, 58, 47, 47, 97>>, <<104, 116, 116, 112, 58, 47, 47, 97>>}

\* outcomes of the HEAD request: an error, 200 with "Image/PNG", with no
\* content type or with "text/html", and 404 with "image/png"
HeadOutcomes ==
  {[err |-> TRUE, status |-> 0, contentType |-> <<>>],
   [err |-> FALSE, status |-> 200, contentType |-> <<73, 109, 97, 103, 101, 47, 80, 78, 71>>],
   [err |-> FALSE, status |-> 200, contentType |-> <<>>],
   [err |-> FALSE, status |-> 200,
    contentType |-> <<116, 101, 120, 116, 47, 104, 116, 109, 108>>],
   [err |-> FALSE, status |-> 404,
    contentType |-> <<105, 109, 97, 103, 101, 47, 112, 110, 103>>]}

\* presentation.RichTopic of a topic with the image URL chosen for it
RichTopic(t, url) ==
  [Title |-> t.Topic, Summary |-> t.Summary, ImageURL |-> url,
   Dataset |-> IF t.Dataset # NilDataset /\ Len(t.Dataset[1].Points) > 0
               THEN t.Dataset ELSE NilDataset]

\* one iteration of the loop that maps the topics to rich topics
ChooseImage ==
  /\ pc = "rich"
  /\ Len(rich) < Len(topics)
  /\ LET t == topics[Len(rich) + 1]
     IN IF flags.cse
        THEN \E found \in SearchResults, head \in HeadOutcomes :
               LET img == SearchBestImage(t.Topic, found)
               IN /\ image' = <<[img |-> img, head |-> head]>>
                  /\ rich' = Append(rich, RichTopic(t, validateImageURL(img, defaultImage, head)))
        ELSE /\ image' = <<>>
             /\ rich' = Append(rich, RichTopic(t, <<>>))
  /\ UNCHANGED <<fmtVars, sanVars, topic, flags, modelCalls, topics, printed, logged, pc,
                 wVars>>

(* ==================== the deck writer (WriteTopicsWithCharts) ========= *)

(* ------------------------------ package charts ------------------------ *)

\* a sheet of the spreadsheet: a grid sheet with cell values, or the sheet a
\* chart was placed on (ChartId is 0 on a grid sheet)
GridSheet(id, title, values) ==
  [SheetId |-> id, Title |-> title, SheetType |-> "GRID", Values |-> values,
   ChartId |-> 0, ChartType |-> "", Source |-> 0]
ChartSheet(id, type, chartType, source) ==
  [SheetId |-> id, Title |-> <<"Chart", id>>, SheetType |-> type, Values |-> <<>>,
   ChartId |-> id, ChartType |-> chartType, Source |-> source]

\* fmt.Sprintf("Data_%d", i+1)
DataTitle(i) == <<"Data_", i + 1>>

\* one call to the Slides or Sheets service, as the service saw it
ApiCall(svc, op, ok, payload) == [svc |-> svc, op |-> op, ok |-> ok, payload |-> payload]

\* positions of the sheets titled `title`
SheetsTitled(sheets, title) == {k \in 1..Len(sheets) : sheets[k].Title = title}

\* strings.EqualFold(sh.Properties.SheetType, "CHART")
IsChartSheet(sh) == sh.SheetType \in {"CHART", "chart", "Chart"}

\* makeCells(labels, header, nums): the header row and one row per point
makeCells(ds) == <<[Unit |-> ds.Unit, Rows |-> ds.Points]>>

\* the chart type chosen from ds.Type
ChartTypeOf(ds) == IF ds.Type = TypeTimeseries THEN "LINE" ELSE "COLUMN"

\* the places where a call of CreateSheetsChart can fail, in the order of
\* the calls
ChartFailures ==
  {"none", "get spreadsheet", "add sheet", "clear values",
   "get spreadsheet (for chart wipe)", "delete chart sheets", "write values",
   "batch update (add chart)", "missing add chart reply"}

\* the sheets deleteAllChartSheets asks to delete
ChartSheetsToWipe(sheets) == {k \in 1..Len(sheets) : IsChartSheet(sheets[k])}

\* the sheets without those at the positions in `gone`
Without(sheets, gone) ==
  LET keep == Sorted({k \in 1..Len(sheets) : k \notin gone})
  IN [k \in 1..Len(keep) |-> sheets[keep[k]]]

\* CreateSheetsChart(ctx, sheetsSvc, spreadsheetID, sheetTitle, ds), failing
\* at `failAt`: the spreadsheet as the call leaves it, the chart id and the
\* error returned, and the calls sent to the Sheets service
CreateSheetsChart(b, sheetTitle, ds, failAt) ==
  LET Ret(bk, id, err, calls) == [book |-> bk, chartID |-> id, err |-> err, calls |-> calls]
      Ok(op) == ApiCall("sheets", op, TRUE, <<>>)
      Failed(op) == ApiCall("sheets", op, FALSE, <<>>)
      found == SheetsTitled(b.sheets, sheetTitle)
      \* ensureGridSheet
      b1 == IF found # {} THEN b
            ELSE [b EXCEPT !.sheets = Append(@, GridSheet(b.nextId, sheetTitle, <<>>)),
                           !.nextId = @ + 1]
      sheetID == IF found # {} THEN b.sheets[Min(found)].SheetId ELSE b.nextId
      c1 == IF found # {} THEN <<Ok("Get")>> ELSE <<Ok("Get"), Ok("BatchUpdate AddSheet")>>
      \* Values.Clear
      b2 == [b1 EXCEPT !.sheets =
               [k \in 1..Len(b1.sheets) |->
                  IF b1.sheets[k].Title = sheetTitle
                  THEN [b1.sheets[k] EXCEPT !.Values = <<>>] ELSE b1.sheets[k]]]
      c2 == Append(c1, Ok("Values.Clear"))
      \* deleteAllChartSheets
      wipe == ChartSheetsToWipe(b2.sheets)
      b3 == [b2 EXCEPT !.sheets = Without(b2.sheets, wipe)]
      c3 == IF wipe = {} THEN Append(c2, Ok("Get"))
            ELSE c2 \o <<Ok("Get"), Ok("BatchUpdate DeleteSheet")>>
      \* Values.Update
      b4 == [b3 EXCEPT !.sheets =
               [k \in 1..Len(b3.sheets) |->
                  IF b3.sheets[k].Title = sheetTitle
                  THEN [b3.sheets[k] EXCEPT !.Values = makeCells(ds)] ELSE b3.sheets[k]]]
      c4 == Append(c3, Ok("Values.Update"))
      \* BatchUpdate AddChart
      b5 == [b4 EXCEPT !.sheets = Append(@, ChartSheet(b4.nextId, b.chartSheetType,
                                                       ChartTypeOf(ds), sheetID)),
                       !.nextId = @ + 1]
      c5 == Append(c4, Ok("BatchUpdate AddChart"))
  IN IF Len(ds.Points) = 0 THEN Ret(b, 0, "no points to chart", <<>>)
     ELSE IF failAt = "get spreadsheet" THEN Ret(b, 0, failAt, <<Failed("Get")>>)
     ELSE IF failAt = "add sheet" /\ found = {}
     THEN Ret(b, 0, failAt, <<Ok("Get"), Failed("BatchUpdate AddSheet")>>)
     ELSE IF failAt = "clear values" THEN Ret(b1, 0, failAt, Append(c1, Failed("Values.Clear")))
     ELSE IF failAt = "get spreadsheet (for chart wipe)"
     THEN Ret(b2, 0, failAt, Append(c2, Failed("Get")))
     ELSE IF failAt = "delete chart sheets" /\ wipe # {}
     THEN Ret(b2, 0, failAt, c2 \o <<Ok("Get"), Failed("BatchUpdate DeleteSheet")>>)
     ELSE IF failAt = "write values" THEN Ret(b3, 0, failAt, Append(c3, Failed("Values.Update")))
     ELSE IF failAt = "batch update (add chart)"
     THEN Ret(b4, 0, failAt, Append(c4, Failed("BatchUpdate AddChart")))
     ELSE IF failAt = "missing add chart reply" THEN Ret(b5, 0, failAt, c5)
     ELSE Ret(b5, b4.nextId, "", c5)

\* BuildEmbedRequests(spreadsheetID, chartID, pageObjectID, objectID, ...)
BuildEmbedRequests(chartID, pageObjectID, objectID) ==
  <<[kind |-> "CreateSheetsChart", ObjectId |-> objectID, ChartId |-> chartID,
     LinkingMode |-> "LINKED", PageObjectId |-> pageObjectID]>>

\* charts.CleanupSpreadsheetForCharts: the chart tabs and the Data_ tabs are
\* deleted, and a grid sheet remains
CleanupSpreadsheetForCharts(b) ==
  LET gone == {k \in 1..Len(b.sheets) :
                 IsChartSheet(b.sheets[k]) \/ b.sheets[k].Title[1] = "Data_"}
      rest == Without(b.sheets, gone)
  IN IF \E k \in 1..Len(rest) : rest[k].SheetType = "GRID"
     THEN [b EXCEPT !.sheets = rest]
     ELSE [b EXCEPT !.sheets = Append(rest, GridSheet(b.nextId, <<"Sheet", b.nextId>>, <<>>)),
                    !.nextId = @ + 1]

(* ------------------------- WriteTopicsWithCharts ---------------------- *)

\* a slide of the presentation
Slide(id, elements) == [ObjectId |-> id, PageElements |-> elements]

\* uuid.New().String()[:8]: one value stands for the random suffix, the ids
\* of a run differ by their name and index
Suffix == "1b9d6bcd"

\* fmt.Sprintf("auto_..._%d_%s", i, suffix)
AutoID(name, i, suffix) == <<name, i, suffix>>

DeleteObjectRequest(id) == [kind |-> "DeleteObject", ObjectId |-> id]
CreateSlideRequest(id) == [kind |-> "CreateSlide", ObjectId |-> id, Layout |-> "BLANK"]
CreateShapeRequest(id, page) ==
  [kind |-> "CreateShape", ObjectId |-> id, ShapeType |-> "TEXT_BOX", PageObjectId |-> page]
CreateImageRequest(id, url, page) ==
  [kind |-> "CreateImage", ObjectId |-> id, Url |-> url, PageObjectId |-> page]

\* the slides the Get call returned: the local `pres.Slides`
Snapshot == sent[1].payload

\* ExistingAfterWipe, had `existing = 0` been forgotten
ExistingAfterWipeKept(n) == n

\* `existing` after the "full cleanup of existing slides"
ExistingAfterWipe(n) == IF n > 0 THEN 0 ELSE n

\* the topic has a dataset to chart
HasChart(t) == t.Dataset # NilDataset /\ Len(t.Dataset[1].Points) > 0

\* the requests of loop iteration i up to and with the summary slide
TopicRequests(i, t, existing, slides, suffix) ==
  LET reuse == i < existing
      titleSlideID == IF reuse THEN slides[i + 1].ObjectId ELSE AutoID("auto_slide", i, suffix)
      titleID == AutoID("auto_title", i, suffix)
      imageID == AutoID("auto_image", i, suffix)
      summarySlideID == AutoID("auto_summary", i, suffix)
      bodyID == AutoID("auto_summary_body", i, suffix)
  IN (IF reuse
      THEN [k \in 1..Len(slides[i + 1].PageElements) |->
              DeleteObjectRequest(slides[i + 1].PageElements[k])]
      ELSE <<CreateSlideRequest(titleSlideID)>>)
     \o <<CreateShapeRequest(titleID, titleSlideID)>>
     \o ToSlidesRequests(ParseMarkup(t.Title), titleID)
     \o (IF t.ImageURL # <<>> THEN <<CreateImageRequest(imageID, t.ImageURL, titleSlideID)>>
         ELSE <<>>)
     \o <<CreateSlideRequest(summarySlideID), CreateShapeRequest(bodyID, summarySlideID)>>
     \o ToSlidesRequests(ParseMarkup(t.Summary), bodyID)

\* the checks at the head of WriteTopicsWithCharts
WriteEntry ==
  /\ pc = "w_entry"
  /\ IF Len(rich) = 0 THEN pc' = "w_done" /\ result' = "nil"
     ELSE IF ~flags.slidesSvc THEN pc' = "w_done" /\ result' = "slides service is nil"
     ELSE IF ~flags.sheetsSvc THEN pc' = "w_done" /\ result' = "sheets service is nil"
     ELSE pc' = "w_get" /\ UNCHANGED result
  /\ UNCHANGED <<fmtVars, sanVars, topic, cliVars, pres, book, batch, idx, sent>>

\* slidesSvc.Presentations.Get
WriteGet ==
  /\ pc = "w_get"
  /\ \E ok \in BOOLEAN :
       /\ sent' = Append(sent, ApiCall("slides", "Get", ok, IF ok THEN pres ELSE <<>>))
       /\ IF ok THEN pc' = "w_delete" /\ UNCHANGED result
          ELSE pc' = "w_done" /\ result' = "get presentation"
  /\ UNCHANGED <<fmtVars, sanVars, topic, cliVars, pres, book, batch, idx>>

\* "Full cleanup of existing slides": one batch that deletes every slide
WriteDeleteExisting ==
  /\ pc = "w_delete"
  /\ LET delReqs == [k \in 1..Len(Snapshot) |-> DeleteObjectRequest(Snapshot[k].ObjectId)]
     IN IF Len(Snapshot) > 0 /\ Len(delReqs) > 0
        THEN \E ok \in BOOLEAN :
               /\ sent' = Append(sent, ApiCall("slides", "BatchUpdate", ok, delReqs))
               /\ IF ok THEN pc' = "w_cleanup" /\ pres' = <<>> /\ UNCHANGED result
                  ELSE /\ pc' = "w_done" /\ result' = "delete existing slides"
                       /\ UNCHANGED pres
        ELSE pc' = "w_cleanup" /\ UNCHANGED <<sent, pres, result>>
  /\ UNCHANGED <<fmtVars, sanVars, topic, cliVars, book, batch, idx>>

\* charts.CleanupSpreadsheetForCharts
WriteCleanup ==
  /\ pc = "w_cleanup"
  /\ \E ok \in BOOLEAN :
       /\ sent' = Append(sent, ApiCall("sheets", "CleanupSpreadsheetForCharts", ok, <<>>))
       /\ IF ok
          THEN pc' = "w_topic" /\ book' = CleanupSpreadsheetForCharts(book) /\ UNCHANGED result
          ELSE pc' = "w_done" /\ result' = "cleanup spreadsheet" /\ UNCHANGED book
  /\ UNCHANGED <<fmtVars, sanVars, topic, cliVars, pres, batch, idx>>

\* one iteration of the loop over the topics
WriteTopic ==
  /\ pc = "w_topic"
  /\ idx < Len(rich)
  /\ LET t == rich[idx + 1]
         existing == ExistingAfterWipe(Len(Snapshot))
         upToSummary == batch \o TopicRequests(idx, t, existing, Snapshot, Suffix)
         chartSlideID == AutoID("auto_chart_slide", idx, Suffix)
         chartObjectID == AutoID("auto_chart", idx, Suffix)
     IN IF HasChart(t)
        THEN \E failAt \in ChartFailures :
               LET made == CreateSheetsChart(book, DataTitle(idx), t.Dataset[1], failAt)
               IN /\ book' = made.book
                  /\ sent' = sent \o made.calls
                  /\ IF made.err # ""
                     THEN /\ pc' = "w_done" /\ result' = "create sheets chart"
                          /\ batch' = Append(upToSummary, CreateSlideRequest(chartSlideID))
                          /\ UNCHANGED idx
                     ELSE /\ batch' = Append(upToSummary, CreateSlideRequest(chartSlideID))
                                        \o BuildEmbedRequests(made.chartID, chartSlideID,
                                                              chartObjectID)
                          /\ idx' = idx + 1
                          /\ UNCHANGED <<pc, result>>
        ELSE /\ batch' = upToSummary
             /\ idx' = idx + 1
             /\ UNCHANGED <<book, sent, pc, result>>
  /\ UNCHANGED <<fmtVars, sanVars, topic, cliVars, pres>>

\* the slides a batch creates, each with the elements the batch puts on it
SlidesCreated(reqs) ==
  LET creates == SelectSeq(reqs, LAMBDA r : r.kind = "CreateSlide")
      elements == SelectSeq(reqs, LAMBDA r : r.kind \in {"CreateShape", "CreateImage",
                                                          "CreateSheetsChart"})
  IN [k \in 1..Len(creates) |->
        Slide(creates[k].ObjectId,
              LET on == SelectSeq(elements, LAMBDA r : r.PageObjectId = creates[k].ObjectId)
              IN [j \in 1..Len(on) |-> on[j].ObjectId])]

\* the final BatchUpdate with the collected requests
WriteCommit ==
  /\ pc = "w_topic"
  /\ idx = Len(rich)
  /\ IF Len(batch) = 0 THEN pc' = "w_done" /\ result' = "nil" /\ UNCHANGED <<sent, pres>>
     ELSE \E ok \in BOOLEAN :
            /\ sent' = Append(sent, ApiCall("slides", "BatchUpdate", ok, batch))
            /\ pc' = "w_done"
            /\ IF ok THEN result' = "nil" /\ pres' = pres \o SlidesCreated(batch)
               ELSE result' = "batch update" /\ UNCHANGED pres
  /\ UNCHANGED <<fmtVars, sanVars, topic, cliVars, book, batch, idx>>

\* main logs the error of WriteTopicsWithCharts, if any, and returns
WriteReturn ==
  /\ pc = "w_done"
  /\ pc' = "done"
  /\ logged' = IF result # "nil" THEN Append(logged, "WriteTopicsWithCharts: error") ELSE logged
  /\ UNCHANGED <<fmtVars, sanVars, topic, flags, modelCalls, topics, printed, rich, image,
                 wVars>>

\* the --sheet-id check and the call of WriteTopicsWithCharts
WriteTopicsWithChartsCall ==
  /\ pc = "rich"
  /\ Len(rich) = Len(topics)
  /\ image' = <<>>
  /\ IF ~flags.sheetID
     THEN pc' = "done" /\ logged' = Append(logged, "--sheet-id is required")
     ELSE pc' = "w_entry" /\ UNCHANGED logged
  /\ UNCHANGED <<fmtVars, sanVars, topic, flags, modelCalls, topics, printed, rich, wVars>>

(* --------------------- the run and the writer as specifications ------- *)

\* a spreadsheet: its sheets, the id the service gives the next sheet or
\* chart, the sheetType the service reports for a chart's sheet, and the
\* sheets as they were when the writer was called
Book(sheets, chartSheetType) ==
  [sheets |-> sheets, nextId |-> 10, chartSheetType |-> chartSheetType, before |-> sheets]

\* a cell range left by an earlier run
OldValues == <<[Unit |-> <<>>, Rows |-> <<DataPoint(<<97>>, "1")>>]>>

\* spreadsheets the user passes with --sheet-id: a fresh one, one an earlier
\* run wrote to, and one with nothing but a Data_1 tab
SheetInputs(chartSheetType) ==
  {<<GridSheet(1, <<"Sheet", 1>>, <<>>)>>,
   <<GridSheet(1, <<"Sheet", 1>>, <<>>), GridSheet(2, DataTitle(0), OldValues),
     ChartSheet(3, chartSheetType, "COLUMN", 2)>>,
   <<GridSheet(2, DataTitle(0), OldValues)>>}

BookInputs ==
  UNION {{Book(sh, ty) : sh \in SheetInputs(ty)} : ty \in {"CHART", "OBJECT"}}

\* presentations the user passes with --presentation-id: without slides,
\* with one slide, with two
DeckInputs ==
  {<<>>,
   <<Slide(<<"p", 1, "old">>, <<(<<"e", 1, "old">>)>>)>>,
   <<Slide(<<"p", 1, "old">>, <<(<<"e", 1, "old">>)>>), Slide(<<"p", 2, "old">>, <<>>)>>}

\* the configuration of a run: --max as clamped to 1..5, whether
\* --presentation-id and --sheet-id are set, whether Custom Search is
\* configured, and the two services main builds
Flags(max, presentation, sheet, cse, slidesSvc, sheetsSvc) ==
  [maxTopics |-> max, presentationID |-> presentation, sheetID |-> sheet, cse |-> cse,
   slidesSvc |-> slidesSvc, sheetsSvc |-> sheetsSvc]

\* main after the inputs were validated and the model client built
InitCli ==
  /\ flags \in {Flags(m, p, sh, c, TRUE, TRUE) :
                  m \in {1, 5}, p \in BOOLEAN, sh \in BOOLEAN, c \in BOOLEAN}
  /\ flags.presentationID \/ (~flags.sheetID /\ ~flags.cse)
  /\ pc = "classify"
  /\ modelCalls = <<>> /\ topics = <<>> /\ printed = <<>> /\ logged = <<>>
  /\ rich = <<>> /\ image = <<>>
  /\ pres \in {d \in DeckInputs : Len(d) = 1}
  /\ book \in {Book(sh, "CHART") : sh \in {s \in SheetInputs("CHART") : Len(s) = 1}}
  /\ book.sheets[1].Title[1] = "Sheet"
  /\ batch = <<>> /\ idx = 0 /\ sent = <<>> /\ result = "none"
  /\ FmtIdle /\ SanIdle /\ DsIdle

NextCli ==
  \/ ClassifierCall
  \/ FirstGenerateCall
  \/ RetryGenerateCall
  \/ PrintTopics
  \/ LoadCredentials
  \/ ChooseImage
  \/ WriteTopicsWithChartsCall
  \/ WriteEntry
  \/ WriteGet
  \/ WriteDeleteExisting
  \/ WriteCleanup
  \/ WriteTopic
  \/ WriteCommit
  \/ WriteReturn

CliSpec == InitCli /\ [][NextCli]_vars

\* most topics handed to the writer in WriteSpec
MaxDeckTopics == 2

\* the topics main hands to the writer: without and with a dataset, without
\* and with an image
RichInputs ==
  {RichTopic(Postprocess(<<t>>, 1)[1], url) :
     t \in {PlainTopic, ChartTopic}, url \in {<<>>, defaultImage}}

RECURSIVE RichLists(_)
RichLists(n) ==
  IF n = 0 THEN {<<>>}
  ELSE LET shorter == RichLists(n - 1)
       IN shorter \cup
            {Append(l, t) : l \in {k \in shorter : Len(k) = n - 1}, t \in RichInputs}

\* a caller calls WriteTopicsWithCharts
InitWrite ==
  /\ flags \in {Flags(5, TRUE, TRUE, FALSE, sl, sh) : sl \in BOOLEAN, sh \in BOOLEAN}
  /\ flags.slidesSvc \/ flags.sheetsSvc
  /\ rich \in RichLists(MaxDeckTopics)
  /\ pres \in DeckInputs
  /\ book \in BookInputs
  /\ pc = "w_entry"
  /\ batch = <<>> /\ idx = 0 /\ sent = <<>> /\ result = "none"
  /\ modelCalls = <<>> /\ topics = <<>> /\ printed = <<>> /\ logged = <<>> /\ image = <<>>
  /\ FmtIdle /\ SanIdle /\ DsIdle

NextWrite ==
  \/ WriteEntry
  \/ WriteGet
  \/ WriteDeleteExisting
  \/ WriteCleanup
  \/ WriteTopic
  \/ WriteCommit

WriteSpec == InitWrite /\ [][NextWrite]_vars

(* --------------------------- properties of the run -------------------- *)

\* C21: the topic-generation call is made at most twice; the strict-JSON
\* call is made exactly when the first response does not parse; when the
\* second response parses the run goes on with its topics, and when it does
\* not parse or the retry call fails the run exits with an error, having
\* printed no topics and sent nothing to Slides or Sheets
C21_GenerationRetriedOnce ==
  LET first == CallsOf("generate")
      retry == CallsOf("retry")
  IN /\ Len(first) <= 1
     /\ Len(retry) <= 1
     /\ retry # <<>> => first # <<>> /\ first[1].ok /\ ~Parses(first[1])
     /\ (first # <<>> /\ first[1].ok /\ ~Parses(first[1])) => (retry # <<>> \/ pc = "retry")
     /\ (retry # <<>> /\ Parses(retry[1])) =>
          /\ pc # "exit"
          /\ pc = "print" => topics = retry[1].parsed[1]
          /\ pc # "print" =>
               /\ topics = Postprocess(retry[1].parsed[1], flags.maxTopics)
               /\ printed = <<topics>>
     /\ (retry # <<>> /\ ~Parses(retry[1])) =>
          /\ pc = "exit"
          /\ logged # <<>>
          /\ logged[Len(logged)] \in {"fatal: generate content", "fatal: invalid JSON from model"}
          /\ printed = <<>>
          /\ sent = <<>>
          /\ book.sheets = book.before

\* the first response did not parse, the second did, and its topics were printed
C21_Witness ==
  /\ CallsOf("retry") # <<>>
  /\ Parses(CallsOf("retry")[1])
  /\ printed # <<>>
  /\ printed[1] # <<>>

\* C22: the classifier is called at most twice, a second time only after a
\* first call that failed with a rate-limit error; an answer TRUE ends the
\* run before any topic-generation call; a classifier that ends in an error
\* (a failure of the last call, or an answer that is neither TRUE nor FALSE)
\* has a warning logged and the run goes on to topic generation
C22_ClassifierRetriedOnRateLimit ==
  LET calls == CallsOf("classify")
      last == calls[Len(calls)]
      ended == calls # <<>> /\ pc # "classify"
  IN /\ Len(calls) <= 2
     /\ Len(calls) = 2 => calls[1].is = "rate limit"
     /\ (ended /\ last.is = "TRUE") =>
          /\ pc = "exit"
          /\ CallsOf("generate") = <<>>
          /\ CallsOf("retry") = <<>>
          /\ logged = <<"fatal: inputs flagged">>
     /\ (ended /\ last.is \in {"rate limit", "failure", "other"}) =>
          /\ logged # <<>>
          /\ logged[1] = "warning: classifier error"
          /\ pc = "generate" \/ CallsOf("generate") # <<>>

\* the classifier was rate limited twice and the topics were generated
C22_Witness ==
  /\ Len(CallsOf("classify")) = 2
  /\ CallsOf("classify")[2].is = "rate limit"
  /\ logged # <<>>
  /\ logged[1] = "warning: classifier error"
  /\ CallsOf("generate") # <<>>

\* the HEAD check of validateImageURL fails: a request error, a status other
\* than 200, or a content type that is neither empty nor an image's
HeadFails(head) ==
  \/ head.err
  \/ head.status # 200
  \/ (head.contentType # <<>> /\ ~HasPrefix(ToLower(head.contentType), TextImage))

\* C26: when a presentation is written and Custom Search is not configured
\* or finds nothing for a topic, the topic's image URL is the fallback URL;
\* and when the URL found is not HTTPS or its HEAD check fails, the fallback
\* URL is used instead
C26_FallbackImageUsed ==
  (pc = "rich" /\ rich # <<>>) =>
    LET url == rich[Len(rich)].ImageURL
    IN /\ ~flags.cse => url = defaultImage
       /\ (flags.cse /\ image[1].img = <<>>) => url = defaultImage
       /\ (flags.cse /\ image[1].img # <<>>
             /\ (~HasPrefix(ToLower(image[1].img), TextHttps) \/ HeadFails(image[1].head))) =>
            url = defaultImage

(* -------------------------- properties of the writer ------------------ *)

\* the requests of one kind in a batch
RequestsOfKind(reqs, kind) == SelectSeq(reqs, LAMBDA r : r.kind = kind)

\* the ids of the slides a batch creates, in the order of its requests
CreatedSlideIDs(reqs) ==
  LET creates == RequestsOfKind(reqs, "CreateSlide")
  IN [k \in 1..Len(creates) |-> creates[k].ObjectId]

\* the slides the first n topics call for: per topic its title slide, its
\* summary slide and, if it has a dataset with points, its chart slide
RECURSIVE SlidesInTopicOrder(_)
SlidesInTopicOrder(n) ==
  IF n = 0 THEN <<>>
  ELSE SlidesInTopicOrder(n - 1)
         \o <<AutoID("auto_slide", n - 1, Suffix), AutoID("auto_summary", n - 1, Suffix)>>
         \o (IF rich[n].Dataset # NilDataset /\ rich[n].Dataset[1].Points # <<>>
             THEN <<AutoID("auto_chart_slide", n - 1, Suffix)>> ELSE <<>>)

\* the ids of the slides and page elements the presentation had at the call
ExistingIDs ==
  {Snapshot[k].ObjectId : k \in 1..Len(Snapshot)}
    \cup UNION {{Snapshot[k].PageElements[j] : j \in 1..Len(Snapshot[k].PageElements)} :
                  k \in 1..Len(Snapshot)}

\* call k is a Slides batch that creates a slide
CreatesSlides(k) ==
  /\ sent[k].svc = "slides"
  /\ sent[k].op = "BatchUpdate"
  /\ RequestsOfKind(sent[k].payload, "CreateSlide") # <<>>

\* C24: every existing slide is deleted before any request that creates a
\* slide is sent; the final batch creates, topic by topic in input order, the
\* title slide, the summary slide and, only for a topic with a non-empty
\* dataset, the chart slide; no slide the presentation had is reused
C24_WipeThenSlidesInTopicOrder ==
  \A k \in 1..Len(sent) :
    CreatesSlides(k) =>
      /\ \/ Snapshot = <<>>
         \/ \E j \in 1..(k - 1) :
              /\ sent[j].svc = "slides" /\ sent[j].op = "BatchUpdate" /\ sent[j].ok
              /\ {r.ObjectId : r \in {sent[j].payload[i] : i \in 1..Len(sent[j].payload)}}
                   = {Snapshot[i].ObjectId : i \in 1..Len(Snapshot)}
              /\ \A i \in 1..Len(sent[j].payload) : sent[j].payload[i].kind = "DeleteObject"
      /\ CreatedSlideIDs(sent[k].payload) = SlidesInTopicOrder(Len(rich))
      /\ \A i \in 1..Len(sent[k].payload) :
           LET r == sent[k].payload[i]
           IN /\ r.kind # "DeleteObject"
              /\ r.ObjectId \notin ExistingIDs
              /\ "PageObjectId" \in DOMAIN r => r.PageObjectId \notin ExistingIDs

\* a presentation with slides was given two topics, one with a dataset, and
\* the final batch went through
C24_Witness ==
  /\ pc = "w_done"
  /\ result = "nil"
  /\ Len(rich) = 2
  /\ \E n \in 1..2 : rich[n].Dataset # NilDataset
  /\ \E n \in 1..2 : rich[n].Dataset = NilDataset
  /\ Snapshot # <<>>
  /\ CreatesSlides(Len(sent))

\* C25: when WriteTopicsWithCharts returns an error, nothing but the
\* deletion of the existing slides has happened: no slide was created and no
\* tab, cell value or chart of the spreadsheet was created, cleared or
\* deleted.  The tabs the spreadsheet cleanup removes are not counted.
C25_NoPartialStateOnError ==
  (pc = "w_done" /\ result # "nil") =>
    /\ \A k \in 1..Len(pres) : pres[k].ObjectId[3] = "old"
    /\ \/ book.sheets = book.before
       \/ book.sheets = CleanupSpreadsheetForCharts(Book(book.before, book.chartSheetType)).sheets

\* C30: every chart a CreateSheetsChart request of the final Slides batch
\* refers to is in the spreadsheet when the batch is sent
C30_EmbeddedChartsExist ==
  \A k \in 1..Len(sent) :
    (sent[k].svc = "slides" /\ sent[k].op = "BatchUpdate") =>
      \A i \in 1..Len(sent[k].payload) :
        sent[k].payload[i].kind = "CreateSheetsChart" =>
          \E n \in 1..Len(book.sheets) : book.sheets[n].ChartId = sent[k].payload[i].ChartId

====
